---- MODULE Spec2Model ----
(***************************************************************************)
(* Airflow Connection Migrator: the token codec (services/fernet.go), the  *)
(* interchange file (services/csv.go), the record store                    *)
(* (services/database.go) and the migration engine (core/core.go).         *)
(*                                                                         *)
(* Go strings are modelled as tagged records so that any two of them can   *)
(* be compared:                                                            *)
(*   "plain"  text that is not well-formed padded base64; val is its bytes  *)
(*   "b64"    padded/unpadded base64 text of raw bytes (keys)              *)
(*   "tok"    URL-safe base64 text of a token (version, timestamp, iv,     *)
(*            ciphertext, hmac)                                            *)
(*   "json"   the JSON text of one ConnectionData document                 *)
(* Connection identifiers are sequences of bytes.  AES-CBC and HMAC-SHA256 *)
(* are symbolic: a ciphertext remembers key, iv and padded plaintext, a    *)
(* MAC remembers key and message.                                          *)
(***************************************************************************)
EXTENDS Integers, Sequences, FiniteSets, TLC

VARIABLES
    source,     \* the source record store: conn_id -> row
    target,     \* the target record store: conn_id -> row
    file,       \* the interchange file at the path: whether it exists, its rows
    now,        \* time.Now().Unix()
    rng,        \* position in the crypto/rand stream (each draw is fresh)
    faults,     \* environment faults injected so far
    exp,        \* the Export call: its position, request and result
    pc,         \* per Import call: "off", "idle", "loop", "done"
    req,        \* per Import call: the ImportRequest
    records,    \* per Import call: the records selected from the file
    existingSet,\* per Import call: result of the up-front existence query
    idx,        \* per Import call: next record of the write loop
    result,     \* per Import call: the ImportResult
    log,        \* per Import call: file and store operations performed, in order
    codec,      \* one use of the codec: key, plaintext, token, outcome of Decrypt
    disk,       \* the vault's storage directory: the salt file and the data file
    vaults,     \* per Store instance: whether it is live, its key, its data map
    mu,         \* per Store instance: the RWMutex, its writer and its readers
    threads,    \* per thread: the Store operation it is executing
    hist,       \* Store operations begun, and the mapping the successful ones define
    csv,        \* one use of the interchange file: records written, records read
    prof        \* one profile saved into the vault and loaded from it

vars == <<source, target, file, now, rng, faults, exp, pc, req, records,
          existingSet, idx, result, log, codec, disk, vaults, mu, threads, hist, csv,
          prof>>

\* what the migration engine leaves alone
storeVars == <<codec, disk, vaults, mu, threads, hist, csv, prof>>

\* what the codec and the vault leave alone
engineVars == <<source, target, file, now, exp, pc, req, records, existingSet, idx,
                result, log>>

-----------------------------------------------------------------------------
(* Program constants: services/fernet.go *)

fernetVersion == 128
fernetKeyLen == 32
fernetTimestampLen == 8
fernetIVLen == 16
BlockSize == 16
MinTokenLen == 73
HMACLen == 32

-----------------------------------------------------------------------------
(* Strings and bytes *)

Plain(bytes) == [kind |-> "plain", val |-> bytes]

EmptyString == Plain(<<>>)

IsEmpty(s) == s.kind = "plain" /\ s.val = <<>>

\* base64 text of raw bytes: which alphabet its characters fit, and whether it
\* carries the padding its length requires
B64(alphabet, padded, bytes) ==
    [kind |-> "b64", val |-> [alphabet |-> alphabet, padded |-> padded, bytes |-> bytes]]

RawData(bytes) == [form |-> "raw", bytes |-> bytes]

Base64Len(n) == 4 * ((n + 2) \div 3)

\* ConnectionData's JSON keys, in struct order
JSONKeys ==
    <<"conn_type", "description", "host", "schema", "login", "password", "port",
      "extra", "is_encrypted", "is_extra_encrypted", "exported_at">>

JSONStringKeys ==
    {"conn_type", "description", "host", "schema", "login", "password", "extra",
     "exported_at"}

RECURSIVE SumLen(_, _)
SumLen(f, S) ==
    IF S = {} THEN 0
    ELSE LET k == CHOOSE x \in S : TRUE IN f[k] + SumLen(f, S \ {k})

\* len(ciphertext) of a symbolic ciphertext is the length of the padded buffer
RECURSIVE StrLen(_)
BufLen(buf) == StrLen(buf.body) + Len(buf.pad)

DataLen(d) ==
    IF d.form = "raw" THEN Len(d.bytes)
    ELSE 1 + fernetTimestampLen + fernetIVLen + BufLen(d.ciphertext.pt) + HMACLen

StrLen(s) ==
    CASE s.kind = "plain" -> Len(s.val)
      [] s.kind = "b64" ->
            IF s.val.padded THEN Base64Len(Len(s.val.bytes))
            ELSE (Len(s.val.bytes) * 4 + 2) \div 3
      [] s.kind = "tok" -> Base64Len(DataLen(s.val))
      [] s.kind = "json" ->
            Len(JSONKeys)
            + SumLen([k \in JSONStringKeys |-> StrLen(s.val[k])], JSONStringKeys)

\* base64.URLEncoding.DecodeString / base64.StdEncoding.DecodeString
Base64Decode(s, alphabet) ==
    CASE s.kind = "plain" ->
            IF s.val = <<>> THEN [ok |-> TRUE, data |-> RawData(<<>>)]
            ELSE [ok |-> FALSE, data |-> RawData(<<>>)]
      [] s.kind = "b64" ->
            IF s.val.alphabet \in {alphabet, "both"} /\ s.val.padded
            THEN [ok |-> TRUE, data |-> RawData(s.val.bytes)]
            ELSE [ok |-> FALSE, data |-> RawData(<<>>)]
      [] s.kind = "tok" ->
            IF alphabet = "url" THEN [ok |-> TRUE, data |-> s.val]
            ELSE [ok |-> FALSE, data |-> RawData(<<>>)]
      [] OTHER -> [ok |-> FALSE, data |-> RawData(<<>>)]

\* try URL-safe first, then standard (fernet.go:38-45, 111-118)
DecodeEither(s) ==
    LET u == Base64Decode(s, "url") IN
    IF u.ok THEN u ELSE Base64Decode(s, "std")

-----------------------------------------------------------------------------
(* Codec: services/fernet.go *)

ErrInvalidFernetKey == "invalid fernet key: must be 32 bytes base64-encoded"
ErrInvalidFernetToken == "invalid fernet token"
ErrInvalidHMAC == "invalid HMAC signature"
ErrRand == "crypto/rand: read failed"

NoFernet == [signingKey |-> <<>>, encryptionKey |-> <<>>]

\* a variant that takes decoded bytes of any length of 16 or more as a key
NewFernetAnyLength(base64Key) ==
    LET d == DecodeEither(base64Key) IN
    IF ~d.ok THEN [err |-> ErrInvalidFernetKey, f |-> NoFernet]
    ELSE IF DataLen(d.data) < 16
    THEN [err |-> ErrInvalidFernetKey, f |-> NoFernet]
    ELSE [err |-> "",
          f |-> [signingKey |-> SubSeq(d.data.bytes, 1, 16),
                 encryptionKey |-> SubSeq(d.data.bytes, 17, Len(d.data.bytes))]]

NewFernet(base64Key) ==
    LET d == DecodeEither(base64Key) IN
    IF ~d.ok THEN [err |-> ErrInvalidFernetKey, f |-> NoFernet]
    ELSE IF DataLen(d.data) # fernetKeyLen
    THEN [err |-> ErrInvalidFernetKey, f |-> NoFernet]
    ELSE [err |-> "",
          f |-> [signingKey |-> SubSeq(d.data.bytes, 1, 16),
                 encryptionKey |-> SubSeq(d.data.bytes, 17, Len(d.data.bytes))]]

ValidateKey(key) == NewFernet(key).err = ""

\* the n-th draw of crypto/rand: rand.Read either fails or fills the buffer
RandBytes(n, len) == [i \in 1..len |-> n % 256]

\* GenerateKey: 32 random bytes, URL-safe base64 with padding
GenerateKey(n, ok) ==
    IF ~ok THEN [err |-> "failed to generate key", key |-> EmptyString]
    ELSE [err |-> "", key |-> B64("url", TRUE, RandBytes(n, fernetKeyLen))]

\* a padding that adds nothing to data that fills its last block
pkcs7PadLazy(data, blockSize) ==
    LET padding == (blockSize - (StrLen(data) % blockSize)) % blockSize IN
    [body |-> data, pad |-> [i \in 1..padding |-> padding]]

pkcs7Pad(data, blockSize) ==
    LET padding == blockSize - (StrLen(data) % blockSize) IN
    [body |-> data, pad |-> [i \in 1..padding |-> padding]]

\* the i-th byte of a buffer; a byte inside opaque (JSON, base64) text is
\* text, never a padding byte value below 32
ByteAt(buf, i) ==
    IF i > StrLen(buf.body) THEN buf.pad[i - StrLen(buf.body)]
    ELSE IF buf.body.kind = "plain" THEN buf.body.val[i]
    ELSE 123

BufTake(buf, m) ==
    IF m >= StrLen(buf.body) /\ buf.body.kind # "plain" THEN buf.body
    ELSE IF buf.body.kind = "plain" THEN Plain(SubSeq(buf.body.val \o buf.pad, 1, m))
    ELSE buf.body

pkcs7Unpad(data) ==
    IF BufLen(data) = 0 THEN [err |-> "empty data", val |-> EmptyString]
    ELSE LET n == BufLen(data)
             padding == ByteAt(data, n)
         IN IF padding > n \/ padding > BlockSize
            THEN [err |-> "invalid padding", val |-> EmptyString]
            ELSE IF \E i \in (n - padding + 1)..n : ByteAt(data, i) # padding
            THEN [err |-> "invalid padding", val |-> EmptyString]
            ELSE [err |-> "", val |-> BufTake(data, n - padding)]

\* AES-128-CBC, symbolic
CBCEncrypt(key, iv, padded) == [ek |-> key, iv |-> iv, pt |-> padded]

\* under another key or iv the blocks decrypt to key-dependent bytes
CBCDecrypt(key, iv, ct) ==
    IF ct.ek = key /\ ct.iv = iv THEN ct.pt
    ELSE [body |-> Plain([i \in 1..BufLen(ct.pt) |->
                            (key[1] + ct.ek[1] + iv[1] + i) % 256]),
          pad |-> <<>>]

\* a signature over the ciphertext alone
HMACWeak(key, msg) == [sk |-> key, msg |-> msg.ciphertext]

\* a digest that does not depend on the key
HMACUnkeyed(key, msg) == [sk |-> <<>>, msg |-> msg]

\* HMAC-SHA256, symbolic
HMAC(key, msg) == [sk |-> key, msg |-> msg]

TokenData(d) ==
    [version |-> d.version, timestamp |-> d.timestamp, iv |-> d.iv,
     ciphertext |-> d.ciphertext]

\* Encrypt: rnd is the outcome of rand.Read(iv), ts is time.Now().Unix()
Encrypt(f, plaintext, rnd, ts) ==
    IF ~rnd.ok THEN [err |-> ErrRand, val |-> EmptyString]
    ELSE LET padded == pkcs7Pad(plaintext, BlockSize)
             ciphertext == CBCEncrypt(f.encryptionKey, rnd.iv, padded)
             token == [version |-> fernetVersion, timestamp |-> ts, iv |-> rnd.iv,
                       ciphertext |-> ciphertext]
             signature == HMAC(f.signingKey, token)
         IN [err |-> "",
             val |-> [kind |-> "tok",
                      val |-> [form |-> "token", version |-> fernetVersion,
                               timestamp |-> ts, iv |-> rnd.iv,
                               ciphertext |-> ciphertext, hmac |-> signature]]]

Decrypt(f, token) ==
    LET d == DecodeEither(token)
        bad == [err |-> ErrInvalidFernetToken, val |-> EmptyString]
    IN IF ~d.ok THEN bad
       ELSE IF DataLen(d.data) < MinTokenLen THEN bad
       ELSE IF d.data.form = "raw"
       THEN IF d.data.bytes[1] # fernetVersion THEN bad
            ELSE [err |-> ErrInvalidHMAC, val |-> EmptyString]
       ELSE IF d.data.version # fernetVersion THEN bad
       ELSE IF d.data.hmac # HMAC(f.signingKey, TokenData(d.data))
       THEN [err |-> ErrInvalidHMAC, val |-> EmptyString]
       ELSE IF BufLen(d.data.ciphertext.pt) % BlockSize # 0 THEN bad
       ELSE LET plaintext == CBCDecrypt(f.encryptionKey, d.data.iv, d.data.ciphertext)
                unpadded == pkcs7Unpad(plaintext)
            IN IF unpadded.err # "" THEN bad ELSE unpadded

DecryptString(f, token) == Decrypt(f, token)

Step(op, ok) == [op |-> op, ok |-> ok]

\* a variant that decrypts and unpads before it verifies the signature
DecryptStepsEager(f, token) ==
    LET d == DecodeEither(token)
        checked == <<Step("decode", TRUE), Step("length", TRUE), Step("version", TRUE)>>
    IN IF ~d.ok THEN <<Step("decode", FALSE)>>
       ELSE IF DataLen(d.data) < MinTokenLen
       THEN <<Step("decode", TRUE), Step("length", FALSE)>>
       ELSE IF d.data.form = "raw"
       THEN <<Step("decode", TRUE), Step("length", TRUE), Step("version", FALSE)>>
       ELSE IF d.data.version # fernetVersion
       THEN <<Step("decode", TRUE), Step("length", TRUE), Step("version", FALSE)>>
       ELSE IF BufLen(d.data.ciphertext.pt) % BlockSize # 0
       THEN checked \o <<Step("blocks", FALSE)>>
       ELSE IF pkcs7Unpad(CBCDecrypt(f.encryptionKey, d.data.iv, d.data.ciphertext)).err # ""
       THEN checked \o <<Step("blocks", TRUE), Step("cbc", TRUE), Step("unpad", FALSE)>>
       ELSE checked \o <<Step("blocks", TRUE), Step("cbc", TRUE), Step("unpad", TRUE),
                         Step("hmac", d.data.hmac = HMAC(f.signingKey, TokenData(d.data)))>>

\* fernet.go:109-168: the checks and operations Decrypt performs on the
\* token, in the order it performs them, each with its outcome
DecryptSteps(f, token) ==
    LET d == DecodeEither(token)
        checked == <<Step("decode", TRUE), Step("length", TRUE), Step("version", TRUE)>>
    IN IF ~d.ok THEN <<Step("decode", FALSE)>>
       ELSE IF DataLen(d.data) < MinTokenLen
       THEN <<Step("decode", TRUE), Step("length", FALSE)>>
       ELSE IF d.data.form = "raw"
       THEN IF d.data.bytes[1] # fernetVersion
            THEN <<Step("decode", TRUE), Step("length", TRUE), Step("version", FALSE)>>
            ELSE checked \o <<Step("hmac", FALSE)>>
       ELSE IF d.data.version # fernetVersion
       THEN <<Step("decode", TRUE), Step("length", TRUE), Step("version", FALSE)>>
       ELSE IF d.data.hmac # HMAC(f.signingKey, TokenData(d.data))
       THEN checked \o <<Step("hmac", FALSE)>>
       ELSE IF BufLen(d.data.ciphertext.pt) % BlockSize # 0
       THEN checked \o <<Step("hmac", TRUE), Step("blocks", FALSE)>>
       ELSE checked \o <<Step("hmac", TRUE), Step("blocks", TRUE), Step("cbc", TRUE),
                         Step("unpad",
                              pkcs7Unpad(CBCDecrypt(f.encryptionKey, d.data.iv,
                                                    d.data.ciphertext)).err = "")>>

EncryptString(f, plaintext, rnd, ts) == Encrypt(f, plaintext, rnd, ts)

-----------------------------------------------------------------------------
(* Data model: models/profile.go, models/connection.go, models/requests.go *)

DefaultDBPort == 5432

CollisionStop == "stop"
CollisionSkip == "skip"
CollisionOverwrite == "overwrite"

\* a variant that does not ask for a host
ValidateLax(p) ==
    IF p.ID = "" THEN "profile ID is required"
    ELSE IF p.Name = "" THEN "profile name is required"
    ELSE IF p.DBPort <= 0 \/ p.DBPort > 65535 THEN "invalid database port"
    ELSE IF p.DBName = "" THEN "database name is required"
    ELSE IF p.DBUser = "" THEN "database user is required"
    ELSE IF IsEmpty(p.FernetKey) THEN "fernet key is required"
    ELSE ""

\* Profile.Validate: the first missing field decides the error
Validate(p) ==
    IF p.ID = "" THEN "profile ID is required"
    ELSE IF p.Name = "" THEN "profile name is required"
    ELSE IF p.DBHost = "" THEN "database host is required"
    ELSE IF p.DBPort <= 0 \/ p.DBPort > 65535 THEN "invalid database port"
    ELSE IF p.DBName = "" THEN "database name is required"
    ELSE IF p.DBUser = "" THEN "database user is required"
    ELSE IF IsEmpty(p.FernetKey) THEN "fernet key is required"
    ELSE ""

\* time.Now().UTC().Format(time.RFC3339)
FormatRFC3339(t) == Plain(<<50, 48, t % 256, 90>>)

ToExportRecord(c, t) ==
    [ConnID |-> c.ID, ConnType |-> c.ConnType, Description |-> c.Description,
     Host |-> c.Host, Schema |-> c.Schema, Login |-> c.Login,
     Password |-> c.Password, Port |-> c.Port, Extra |-> c.Extra,
     IsEncrypted |-> FALSE, IsExtraEncrypted |-> FALSE,
     ExportedAt |-> FormatRFC3339(t)]

ToConnection(r) ==
    [ID |-> r.ConnID, ConnType |-> r.ConnType, Description |-> r.Description,
     Host |-> r.Host, Schema |-> r.Schema, Login |-> r.Login,
     Password |-> r.Password, Port |-> r.Port, Extra |-> r.Extra,
     IsEncrypted |-> FALSE]

Err(msg, ids) == [msg |-> msg, ids |-> ids]

NoErr == Err("", <<>>)

NewImportResult ==
    [Success |-> FALSE, ImportedCount |-> 0, SkippedCount |-> 0,
     OverwrittenCount |-> 0, ImportedIDs |-> <<>>, SkippedIDs |-> <<>>,
     OverwrittenIDs |-> <<>>, Error |-> NoErr]

-----------------------------------------------------------------------------
(* Record store: services/database.go *)

nullString(s) ==
    IF IsEmpty(s) THEN [String |-> EmptyString, Valid |-> FALSE]
    ELSE [String |-> s, Valid |-> TRUE]

nullInt(i) ==
    IF i = 0 THEN [Int32 |-> 0, Valid |-> FALSE]
    ELSE [Int32 |-> i, Valid |-> TRUE]

\* the columns bound by InsertConnection and UpdateConnection ($2..$9)
RowOf(conn) ==
    [conn_type |-> conn.ConnType,
     description |-> nullString(conn.Description),
     host |-> nullString(conn.Host),
     schema |-> nullString(conn.Schema),
     login |-> nullString(conn.Login),
     password |-> nullString(conn.Password),
     port |-> nullInt(conn.Port),
     extra |-> nullString(conn.Extra)]

\* rows.Scan into a Connection (ListConnections)
ScanRow(id, row) ==
    [ID |-> id, ConnType |-> row.conn_type, Description |-> row.description.String,
     Host |-> row.host.String, Schema |-> row.schema.String,
     Login |-> row.login.String, Password |-> row.password.String,
     Port |-> row.port.Int32, Extra |-> row.extra.String,
     IsEncrypted |-> row.password.Valid /\ ~IsEmpty(row.password.String)]

\* byte-wise order of conn_id (ORDER BY conn_id)
RECURSIVE IDLess(_, _)
IDLess(a, b) ==
    IF a = <<>> THEN b # <<>>
    ELSE IF b = <<>> THEN FALSE
    ELSE IF Head(a) # Head(b) THEN Head(a) < Head(b)
    ELSE IDLess(Tail(a), Tail(b))

RECURSIVE SortIDs(_)
SortIDs(S) ==
    IF S = {} THEN <<>>
    ELSE LET m == CHOOSE x \in S : \A y \in S \ {x} : IDLess(x, y)
         IN <<m>> \o SortIDs(S \ {m})

ListConnections(store, fail) ==
    IF fail THEN [err |-> "failed to query connections", conns |-> <<>>]
    ELSE LET ids == SortIDs(DOMAIN store) IN
         [err |-> "", conns |-> [i \in 1..Len(ids) |-> ScanRow(ids[i], store[ids[i]])]]

\* INSERT INTO connection: conn_id is unique within a store
InsertConnection(store, conn, fail) ==
    IF fail \/ conn.ID \in DOMAIN store
    THEN [err |-> "failed to insert connection", store |-> store]
    ELSE [err |-> "",
          store |-> [x \in DOMAIN store \cup {conn.ID} |->
                        IF x = conn.ID THEN RowOf(conn) ELSE store[x]]]

\* UPDATE connection ... WHERE conn_id = $1
UpdateConnection(store, conn, fail) ==
    IF fail THEN [err |-> "failed to update connection", store |-> store]
    ELSE IF conn.ID \notin DOMAIN store
    THEN [err |-> "connection not found", store |-> store]
    ELSE [err |-> "", store |-> [store EXCEPT ![conn.ID] = RowOf(conn)]]

\* SELECT conn_id FROM connection WHERE conn_id IN (...): the set of rows found
GetExistingConnectionIDs(store, ids, fail) ==
    IF Len(ids) = 0 THEN [err |-> "", ids |-> {}]
    ELSE IF fail THEN [err |-> "query failed", ids |-> {}]
    ELSE [err |-> "", ids |-> {ids[i] : i \in 1..Len(ids)} \cap DOMAIN store]

\* the orders in which the rows of a result set may come back
Orders(S) == {s \in [1..Cardinality(S) -> S] : \A x \in S : \E i \in DOMAIN s : s[i] = x}

-----------------------------------------------------------------------------
(* Interchange file: services/csv.go *)

NoFile == [exists |-> FALSE, rows |-> <<>>]

FileOf(rows) == [exists |-> TRUE, rows |-> rows]

csvHeaders == << <<99, 111, 110, 110, 95, 105, 100>>, Plain(<<101, 110, 99>>) >>

\* the bytes encoding/csv treats specially
Comma == 44
Quote == 34
CR == 13
LF == 10
Space == 32

\* csv.Writer.fieldNeedsQuotes
fieldNeedsQuotes(field) ==
    /\ field # <<>>
    /\ \/ field = <<92, 46>>
       \/ \E i \in DOMAIN field : field[i] \in {Comma, Quote, CR, LF}
       \/ field[1] = Space

\* the text of a quoted field: every quote is doubled
RECURSIVE DoubleQuotes(_)
DoubleQuotes(b) ==
    IF b = <<>> THEN <<>>
    ELSE IF Head(b) = Quote THEN <<Quote, Quote>> \o DoubleQuotes(Tail(b))
    ELSE <<Head(b)>> \o DoubleQuotes(Tail(b))

\* csv.Writer.Write, one field (UseCRLF is false: CR and LF are written as
\* they are)
WriteField(field) ==
    IF fieldNeedsQuotes(field) THEN <<Quote>> \o DoubleQuotes(field) \o <<Quote>>
    ELSE field

\* csv.Reader.readLine: a line that ends in CR LF is read as ending in LF
RECURSIVE NormalizeCRLF(_)
NormalizeCRLF(b) ==
    IF b = <<>> THEN <<>>
    ELSE IF Len(b) >= 2 /\ b[1] = CR /\ b[2] = LF THEN <<LF>> \o NormalizeCRLF(Tail(Tail(b)))
    ELSE <<Head(b)>> \o NormalizeCRLF(Tail(b))

\* the content of a quoted field: a doubled quote is one quote
RECURSIVE UndoubleQuotes(_)
UndoubleQuotes(b) ==
    IF b = <<>> THEN <<>>
    ELSE IF Len(b) >= 2 /\ b[1] = Quote /\ b[2] = Quote
    THEN <<Quote>> \o UndoubleQuotes(Tail(Tail(b)))
    ELSE <<Head(b)>> \o UndoubleQuotes(Tail(b))

\* csv.Reader.ReadAll, one field of a record that Write wrote
ReadField(text) ==
    LET t == NormalizeCRLF(text) IN
    IF t # <<>> /\ Head(t) = Quote THEN UndoubleQuotes(SubSeq(t, 2, Len(t) - 1))
    ELSE t

ConnectionData(r) ==
    [ConnType |-> r.ConnType, Description |-> r.Description, Host |-> r.Host,
     Schema |-> r.Schema, Login |-> r.Login, Password |-> r.Password,
     Port |-> r.Port, Extra |-> r.Extra, IsEncrypted |-> r.IsEncrypted,
     IsExtraEncrypted |-> r.IsExtraEncrypted, ExportedAt |-> r.ExportedAt]

\* U+FFFD in UTF-8
ReplacementChar == <<239, 191, 189>>

\* encoding/json writes a string as UTF-8 text: every byte that is not part of
\* a valid sequence becomes U+FFFD.  The sample strings hold ASCII bytes, lone
\* bytes 254 and 255, and U+FFFD itself.
RECURSIVE CoerceUTF8(_)
CoerceUTF8(b) ==
    IF b = <<>> THEN <<>>
    ELSE IF Head(b) < 128 THEN <<Head(b)>> \o CoerceUTF8(Tail(b))
    ELSE IF Len(b) >= 3 /\ SubSeq(b, 1, 3) = ReplacementChar
    THEN ReplacementChar \o CoerceUTF8(SubSeq(b, 4, Len(b)))
    ELSE ReplacementChar \o CoerceUTF8(Tail(b))

\* a Go string as json.Marshal writes it and json.Unmarshal reads it back:
\* text is coerced to UTF-8; tokens and base64 text are ASCII
JSONString(s) ==
    IF s.kind = "plain" THEN [s EXCEPT !.val = CoerceUTF8(@)] ELSE s

\* json.Marshal(ConnectionData): fields under their json tags
Marshal(data) ==
    [kind |-> "json",
     val |-> [conn_type |-> JSONString(data.ConnType),
              description |-> JSONString(data.Description),
              host |-> JSONString(data.Host), schema |-> JSONString(data.Schema),
              login |-> JSONString(data.Login),
              password |-> JSONString(data.Password), port |-> data.Port,
              extra |-> JSONString(data.Extra),
              is_encrypted |-> data.IsEncrypted,
              is_extra_encrypted |-> data.IsExtraEncrypted,
              exported_at |-> JSONString(data.ExportedAt)]]

ZeroConnectionData ==
    [ConnType |-> EmptyString, Description |-> EmptyString, Host |-> EmptyString,
     Schema |-> EmptyString, Login |-> EmptyString, Password |-> EmptyString,
     Port |-> 0, Extra |-> EmptyString, IsEncrypted |-> FALSE,
     IsExtraEncrypted |-> FALSE, ExportedAt |-> EmptyString]

\* json.Unmarshal into ConnectionData
Unmarshal(s) ==
    IF s.kind # "json" THEN [err |-> "invalid character", data |-> ZeroConnectionData]
    ELSE [err |-> "",
          data |-> [ConnType |-> s.val.conn_type, Description |-> s.val.description,
                    Host |-> s.val.host, Schema |-> s.val.schema,
                    Login |-> s.val.login, Password |-> s.val.password,
                    Port |-> s.val.port, Extra |-> s.val.extra,
                    IsEncrypted |-> s.val.is_encrypted,
                    IsExtraEncrypted |-> s.val.is_extra_encrypted,
                    ExportedAt |-> s.val.exported_at]]

Rand(n, ok) == [ok |-> ok, iv |-> RandBytes(n, fernetIVLen)]

\* one data row: the record's blob encrypted whole under the file key
EncryptedRow(r, fernet, rnd, ts) ==
    LET enc == EncryptString(fernet, Marshal(ConnectionData(r)), rnd, ts) IN
    [err |-> enc.err, row |-> <<WriteField(r.ConnID), enc.val>>]

\* WriteEncryptedCSV.  fl.create: os.Create fails.  fl.encAt = k > 0: rand.Read
\* fails while encrypting record k.  fl.flush: "ok"; "reported", a write fails
\* when the full buffer is flushed inside writer.Write; "lost", the write of
\* the deferred writer.Flush fails after writer.Error() was returned.
\* fl.written: rows that reached the disk when a write failed.
\* Record i uses draw n0 + i of crypto/rand.
WriteEncryptedCSV(old, recs, fernet, n0, ts, fl) ==
    LET rows == [i \in 1..Len(recs) |->
                    EncryptedRow(recs[i], fernet, Rand(n0 + i, TRUE), ts).row]
        all == <<csvHeaders>> \o rows
    IN IF fl.create THEN [err |-> "failed to create file", file |-> old]
       ELSE IF fl.encAt > 0 /\ fl.encAt <= Len(recs)
       THEN [err |-> "failed to encrypt connection", file |-> FileOf(SubSeq(all, 1, fl.encAt))]
       ELSE IF fl.flush = "reported"
       THEN [err |-> "failed to write row", file |-> FileOf(SubSeq(all, 1, fl.written))]
       ELSE IF fl.flush = "lost"
       THEN [err |-> "", file |-> FileOf(SubSeq(all, 1, fl.written))]
       ELSE [err |-> "", file |-> FileOf(all)]

NoWriteFault == [create |-> FALSE, encAt |-> 0, flush |-> "ok", written |-> 0]

ExportRecordOf(connID, data) ==
    [ConnID |-> connID, ConnType |-> data.ConnType, Description |-> data.Description,
     Host |-> data.Host, Schema |-> data.Schema, Login |-> data.Login,
     Password |-> data.Password, Port |-> data.Port, Extra |-> data.Extra,
     IsEncrypted |-> data.IsEncrypted, IsExtraEncrypted |-> data.IsExtraEncrypted,
     ExportedAt |-> data.ExportedAt]

\* csv.go:377-410: one data row, decrypted and parsed
ReadRow(row, fernet) ==
    LET connID == ReadField(row[1])
        decrypted == DecryptString(fernet, row[2])
        parsed == Unmarshal(decrypted.val)
    IN IF decrypted.err # ""
       THEN [err |-> "failed to decrypt connection",
             record |-> ExportRecordOf(connID, ZeroConnectionData)]
       ELSE IF parsed.err # ""
       THEN [err |-> "failed to parse connection",
             record |-> ExportRecordOf(connID, ZeroConnectionData)]
       ELSE [err |-> "", record |-> ExportRecordOf(connID, parsed.data)]

\* a variant that passes over the rows that fail
ReadRowsLenient(rows, out) ==
    LET good == SelectSeq(out, LAMBDA o : o.err = "") IN
    [err |-> NoErr, records |-> [i \in DOMAIN good |-> good[i].record]]

\* csv.go:375-413: the loop over rows[1:] stops at the first row that fails
ReadRows(rows, out) ==
    LET bad == {i \in DOMAIN out : out[i].err # ""} IN
    IF bad # {}
    THEN LET i == CHOOSE j \in bad : \A k \in bad : j <= k IN
         [err |-> Err(out[i].err, <<out[i].record.ConnID>>), records |-> <<>>]
    ELSE [err |-> NoErr, records |-> [i \in DOMAIN out |-> out[i].record]]

\* a variant that takes a file without data rows as an error
ReadEncryptedCSVStrict(f, fernet) ==
    IF ~f.exists THEN [err |-> Err("failed to open file", <<>>), records |-> <<>>]
    ELSE IF Len(f.rows) < 2 THEN [err |-> Err("no records", <<>>), records |-> <<>>]
    ELSE ReadRows(f.rows, [i \in 1..(Len(f.rows) - 1) |-> ReadRow(f.rows[i + 1], fernet)])

ReadEncryptedCSV(f, fernet) ==
    IF ~f.exists THEN [err |-> Err("failed to open file", <<>>), records |-> <<>>]
    ELSE IF Len(f.rows) < 2 THEN [err |-> NoErr, records |-> <<>>]
    ELSE ReadRows(f.rows, [i \in 1..(Len(f.rows) - 1) |-> ReadRow(f.rows[i + 1], fernet)])

-----------------------------------------------------------------------------
(* Bounds and inputs *)

MaxRows == 2        \* data rows of an interchange file
MaxFaults == 1      \* environment faults injected in one behaviour

Callers == {1, 2}

IDa == <<97>>
IDb == <<98>>
IDc == <<99>>
PrefixP == <<112>>

KeyOf(s, e) == B64("url", TRUE, [i \in 1..fernetKeyLen |-> IF i <= 16 THEN s ELSE e])

K1 == KeyOf(1, 2)       \* the source store's key
K2 == KeyOf(3, 4)       \* the target store's key
T1 == KeyOf(5, 6)       \* a transport key
T2 == KeyOf(7, 8)       \* another transport key
ShortKey == B64("url", TRUE, [i \in 1..24 |-> 9])
NotBase64Key == Plain(<<110, 111>>)

GoodProfile(key) ==
    [ID |-> "1", Name |-> "Dev", DBHost |-> "localhost", DBPort |-> DefaultDBPort,
     DBName |-> "airflow", DBUser |-> "airflow", FernetKey |-> key]

Range(s) == {s[i] : i \in DOMAIN s}

\* records as carried, in plaintext, by an interchange file
RecA ==
    [ConnID |-> IDa, ConnType |-> Plain(<<1>>), Description |-> Plain(<<2>>),
     Host |-> Plain(<<3>>), Schema |-> Plain(<<4>>), Login |-> Plain(<<5>>),
     Password |-> Plain(<<11>>), Port |-> DefaultDBPort, Extra |-> Plain(<<21, 22>>),
     IsEncrypted |-> FALSE, IsExtraEncrypted |-> FALSE,
     ExportedAt |-> FormatRFC3339(7)]

RecB ==
    [RecA EXCEPT !.ConnID = IDb, !.Password = Plain(<<12>>), !.Extra = EmptyString,
                 !.Port = 0, !.Description = EmptyString]

RecA2 ==
    [RecA EXCEPT !.Password = EmptyString, !.Extra = Plain(<<23>>),
                 !.Host = Plain(<<6>>)]

SampleRecords == {RecA, RecB}

\* the record lists of the sample files: up to MaxRows records, and one list
\* that carries the identifier a twice, with different values
RecordLists == UNION {[1..n -> SampleRecords] : n \in 0..MaxRows} \cup {<<RecA, RecA2>>}

\* a file as WriteEncryptedCSV writes it under T1; row `bad` (when in range) is
\* replaced by a row under T2 ("key") or by a token of text that is not JSON
\* ("json")
SampleFile(recs, bad, how) ==
    LET good == WriteEncryptedCSV(NoFile, recs, NewFernet(T1).f, 100, 7, NoWriteFault).file.rows
    IN FileOf([i \in 1..Len(good) |->
          IF i = bad + 1 /\ how = "key"
          THEN EncryptedRow(recs[bad], NewFernet(T2).f, Rand(100 + bad, TRUE), 7).row
          ELSE IF i = bad + 1 /\ how = "json"
          THEN <<recs[bad].ConnID,
                 EncryptString(NewFernet(T1).f, recs[bad].Password,
                               Rand(100 + bad, TRUE), 7).val>>
          ELSE good[i]])

\* the file f with the conn_id column of data row i set to id: the column is
\* plain text (csv.go:346), anyone holding the file can edit it
WithConnID(f, i, id) == [f EXCEPT !.rows[i + 1][1] = id]

\* the file f with the conn_id columns of data rows i and j exchanged
SwappedConnIDs(f, i, j) ==
    WithConnID(WithConnID(f, i, f.rows[j + 1][1]), j, f.rows[i + 1][1])

\* a written file whose conn_id column was edited afterwards: one identifier
\* replaced by another, or the identifiers of two rows exchanged
AlteredFiles ==
    {WithConnID(SampleFile(<<RecA, RecB>>, 0, ""), 1, IDc),
     SwappedConnIDs(SampleFile(<<RecA, RecB>>, 0, ""), 1, 2)}

SampleFiles ==
    {NoFile}
    \cup AlteredFiles
    \cup {SampleFile(recs, 0, "") : recs \in RecordLists}
    \cup UNION {{SampleFile(recs, b, "key") : b \in 1..Len(recs)} : recs \in RecordLists}
    \cup {SampleFile(recs, Len(recs), "json") : recs \in RecordLists \ {<<>>}}

\* a row already in the target store: its secrets are tokens under K2
OldRow(id) ==
    RowOf([ID |-> id, ConnType |-> Plain(<<9>>), Description |-> EmptyString,
           Host |-> Plain(<<8>>), Schema |-> EmptyString, Login |-> Plain(<<5>>),
           Password |-> EncryptString(NewFernet(K2).f, Plain(<<31>>),
                                      Rand(200, TRUE), 3).val,
           Port |-> 0, Extra |-> EmptyString, IsEncrypted |-> FALSE])

TargetIDs == {IDa, IDb, PrefixP \o IDa}

TargetStores == {[id \in S |-> OldRow(id)] : S \in SUBSET TargetIDs}

\* the strategy of a request whose form carried none: the CollisionStrategy
\* of part_000:373 is whatever string the form holds
CollisionUnset == ""

\* the requests of an Import on a sample file; a request that is refused for
\* its profile or its transport key comes with one choice of the other fields,
\* and so does the request without a strategy
SampleImportRequests ==
    {r \in [TargetProfile : {GoodProfile(K2), GoodProfile(ShortKey),
                             [GoodProfile(K2) EXCEPT !.DBHost = ""]},
            FileDecryptionKey : {T1, T2, NotBase64Key},
            CollisionStrategy : {CollisionStop, CollisionSkip, CollisionOverwrite,
                                 CollisionUnset},
            ConnectionPrefix : {<<>>, PrefixP},
            ConnectionIDs : {<<>>, <<IDa, PrefixP \o IDb>>}] :
        /\ (r.TargetProfile # GoodProfile(K2) \/ r.FileDecryptionKey = NotBase64Key)
            => /\ r.CollisionStrategy = CollisionStop
               /\ r.ConnectionPrefix = <<>>
               /\ r.ConnectionIDs = <<>>
        /\ r.CollisionStrategy = CollisionUnset
            => /\ r.FileDecryptionKey = T1
               /\ r.ConnectionPrefix = <<>>
               /\ r.ConnectionIDs = <<>>}

\* a row of the source store: its secrets are tokens under K1 (a; b's extra is
\* the token of the empty text) or are kept in plaintext (c)
SourceRow(id) ==
    LET f == NewFernet(K1).f
        tok(bytes, n) == EncryptString(f, Plain(bytes), Rand(n, TRUE), 3).val
    IN RowOf([ID |-> id, ConnType |-> Plain(<<1>>), Description |-> Plain(<<2>>),
              Host |-> Plain(<<3>>), Schema |-> EmptyString, Login |-> Plain(<<5>>),
              Password |-> IF id = IDa THEN tok(<<11>>, 210)
                           ELSE IF id = IDb THEN tok(<<12>>, 211)
                           ELSE Plain(<<13>>),
              Port |-> IF id = IDa THEN DefaultDBPort ELSE 0,
              Extra |-> IF id = IDa THEN tok(<<21, 22>>, 212)
                        ELSE IF id = IDb THEN tok(<<>>, 213)
                        ELSE EmptyString,
              IsEncrypted |-> FALSE])

SourceIDs == {IDa, IDb, IDc}

SourceStores == {[id \in S |-> SourceRow(id)] : S \in SUBSET SourceIDs}

ExportRequests ==
    [SourceProfile : {GoodProfile(K1), GoodProfile(K2), GoodProfile(EmptyString),
                      GoodProfile(ShortKey),
                      [GoodProfile(K1) EXCEPT !.DBHost = ""],
                      [GoodProfile(K1) EXCEPT !.DBName = ""],
                      [GoodProfile(K1) EXCEPT !.DBUser = ""]},
     ConnectionIDs : {<<>>, <<IDb, IDa, IDb>>},
     FileEncryptionKey : {EmptyString, T1, ShortKey}]

\* the requests of an Import that follows an Export: the transport key is the
\* one the Export reported
ImportRequestsAfter(key) ==
    [TargetProfile : {GoodProfile(K2)},
     FileDecryptionKey : {key},
     CollisionStrategy : {CollisionSkip, CollisionOverwrite},
     ConnectionPrefix : {<<>>},
     ConnectionIDs : {<<>>}]

NoRequest ==
    [TargetProfile |-> GoodProfile(EmptyString), FileDecryptionKey |-> EmptyString,
     CollisionStrategy |-> "", ConnectionPrefix |-> <<>>, ConnectionIDs |-> <<>>]

-----------------------------------------------------------------------------
(* Migration engine: core/core.go, Import *)

NoRow == RowOf(ToConnection(ExportRecordOf(<<>>, ZeroConnectionData)))

Ev(op, ids, row, ok) == [op |-> op, ids |-> ids, row |-> row, ok |-> ok]

\* a variant that drops the prefix
UnprefixedID(r, connID) == connID

\* core.go:183-186 and 211-214
EffectiveID(r, connID) ==
    IF r.ConnectionPrefix # <<>> THEN r.ConnectionPrefix \o connID ELSE connID

\* core.go:165-178
FilterRecords(r, recs) ==
    IF Len(r.ConnectionIDs) > 0
    THEN SelectSeq(recs, LAMBDA x : x.ConnID \in Range(r.ConnectionIDs))
    ELSE recs

\* a variant that tolerates a single collision
StopsOnManyCollisions(strategy, existing) ==
    strategy = CollisionStop /\ Cardinality(existing) > 1

\* core.go:202: the stop strategy aborts when any effective id exists
StopsOnCollision(strategy, existing) ==
    strategy = CollisionStop /\ Cardinality(existing) > 0

\* a variant that never passes a record over
SkipsNothing(strategy, exists) == FALSE

\* core.go:219-224: an existing record is passed over under the skip strategy
SkipsRecord(strategy, exists) ==
    exists /\ strategy = CollisionSkip

\* core.go:222-223
Skipped(res, id) ==
    [res EXCEPT !.SkippedIDs = Append(@, id), !.SkippedCount = @ + 1]

\* core.go:241-249: an existing record is updated, any other is inserted
WriteConnection(store, conn, exists, fail) ==
    IF exists THEN UpdateConnection(store, conn, fail)
    ELSE InsertConnection(store, conn, fail)

\* a variant that reports every written record as imported
WrittenAsImported(res, exists, id) ==
    [res EXCEPT !.ImportedIDs = Append(@, id), !.ImportedCount = @ + 1]

\* core.go:246-247 and 253-254
Written(res, exists, id) ==
    IF exists
    THEN [res EXCEPT !.OverwrittenIDs = Append(@, id), !.OverwrittenCount = @ + 1]
    ELSE [res EXCEPT !.ImportedIDs = Append(@, id), !.ImportedCount = @ + 1]

\* a variant that also counts the record whose statement failed
WriteFailedCounted(res, exists, id) ==
    [Written(res, exists, id) EXCEPT
        !.Error = Err(IF exists THEN "failed to update" ELSE "failed to insert", <<id>>)]

\* core.go:243 and 250: the failing statement ends the call
WriteFailed(res, exists, id) ==
    [res EXCEPT !.Error = Err(IF exists THEN "failed to update" ELSE "failed to insert",
                              <<id>>)]

\* result.Error = ...; return result, nil
Failed(msg, ids) == [NewImportResult EXCEPT !.Error = Err(msg, ids)]

\* the call returns: core.go's "return result, nil"
Return(c, res, lg) ==
    /\ result' = [result EXCEPT ![c] = res]
    /\ log' = [log EXCEPT ![c] = lg]
    /\ pc' = [pc EXCEPT ![c] = "done"]

\* the requests of two Import calls that run side by side on one target
ConcurrentImportRequests ==
    [TargetProfile : {GoodProfile(K2)},
     FileDecryptionKey : {T1},
     CollisionStrategy : {CollisionSkip, CollisionOverwrite},
     ConnectionPrefix : {<<>>},
     ConnectionIDs : {<<>>}]

\* the requests an Import is given: any sample request on a sample file, or,
\* after an Export, a request carrying the key that Export reported, or, when
\* two calls run side by side, a request of ConcurrentImportRequests
ImportRequests ==
    IF exp.pc = "done" THEN ImportRequestsAfter(exp.result.FileEncryptionKey)
    ELSE IF \A c \in Callers : pc[c] # "off" THEN ConcurrentImportRequests
    ELSE SampleImportRequests

\* core.go:122-205: everything up to the write loop.  connectFails and
\* queryFails are the faults of NewDatabase and of the existence query.
ImportBegin(c) ==
    /\ pc[c] = "idle"
    /\ exp.pc # "idle"
    /\ \E key \in {x.FileDecryptionKey : x \in ImportRequests} :
       \E rd \in {ReadEncryptedCSV(file, NewFernet(key).f)} :
       \E r \in {x \in ImportRequests : x.FileDecryptionKey = key} :
       \E filtered \in {FilterRecords(r, rd.records)} :
       \E idsToCheck \in {[i \in 1..Len(filtered) |-> EffectiveID(r, filtered[i].ConnID)]} :
       \E connectFails \in BOOLEAN, queryFails \in BOOLEAN :
       \E q \in {GetExistingConnectionIDs(target, idsToCheck, queryFails)} :
        LET verr == Validate(r.TargetProfile)
            evRead == Ev("read", <<>>, NoRow, rd.err = NoErr)
            evConn == Ev("connect", <<>>, NoRow, ~connectFails)
            evQuery == Ev("query", idsToCheck, NoRow, q.err = "")
            nf == (IF connectFails THEN 1 ELSE 0) + (IF queryFails THEN 1 ELSE 0)
        IN
        /\ faults + nf <= MaxFaults
        /\ req' = [req EXCEPT ![c] = r]
        /\ faults' = faults + nf
        /\ UNCHANGED <<source, target, file, now, rng, exp>>
        /\ UNCHANGED storeVars
        /\ IF verr # ""
           THEN /\ nf = 0
                /\ Return(c, Failed(verr, <<>>), <<>>)
                /\ UNCHANGED <<records, existingSet, idx>>
           ELSE IF NewFernet(key).err # ""
           THEN /\ nf = 0
                /\ Return(c, Failed("invalid file decryption key", <<>>), <<>>)
                /\ UNCHANGED <<records, existingSet, idx>>
           ELSE IF rd.err # NoErr
           THEN /\ nf = 0
                /\ Return(c, Failed("failed to read CSV", rd.err.ids), <<evRead>>)
                /\ UNCHANGED <<records, existingSet, idx>>
           ELSE IF Len(rd.records) = 0
           THEN /\ nf = 0
                /\ Return(c, [NewImportResult EXCEPT !.Success = TRUE], <<evRead>>)
                /\ UNCHANGED <<records, existingSet, idx>>
           ELSE IF connectFails
           THEN /\ ~queryFails
                /\ Return(c, Failed("failed to connect to database", <<>>),
                          <<evRead, evConn>>)
                /\ UNCHANGED <<records, existingSet, idx>>
           ELSE IF NewFernet(r.TargetProfile.FernetKey).err # ""
           THEN /\ nf = 0
                /\ Return(c, Failed("invalid target fernet key", <<>>),
                          <<evRead, evConn>>)
                /\ UNCHANGED <<records, existingSet, idx>>
           ELSE IF q.err # ""
           THEN Return(c, Failed("failed to check existing connections", <<>>),
                       <<evRead, evConn, evQuery>>)
                /\ UNCHANGED <<records, existingSet, idx>>
           ELSE IF StopsOnCollision(r.CollisionStrategy, q.ids)
           THEN /\ nf = 0
                /\ \E existingIDs \in Orders(q.ids) :
                     Return(c, Failed("connections already exist", existingIDs),
                            <<evRead, evConn, evQuery>>)
                /\ UNCHANGED <<records, existingSet, idx>>
           ELSE /\ nf = 0
                /\ records' = [records EXCEPT ![c] = filtered]
                /\ existingSet' = [existingSet EXCEPT ![c] = q.ids]
                /\ idx' = [idx EXCEPT ![c] = 1]
                /\ result' = [result EXCEPT ![c] = NewImportResult]
                /\ log' = [log EXCEPT ![c] = <<evRead, evConn, evQuery>>]
                /\ pc' = [pc EXCEPT ![c] = "loop"]

\* core.go:230-238: re-encrypt one secret field under the target key; the
\* error of EncryptString is discarded
ReEncrypt(f, field, rnd, ts) ==
    IF ~IsEmpty(field) THEN EncryptString(f, field, rnd, ts).val ELSE field

\* core.go:208-256: one iteration of the write loop.  randFails1, randFails2
\* and storeFails are the faults of the two rand.Read calls and of the
\* INSERT or UPDATE statement.
ImportStep(c) ==
    /\ pc[c] = "loop"
    /\ idx[c] <= Len(records[c])
    /\ \E randFails1 \in BOOLEAN, randFails2 \in BOOLEAN, storeFails \in BOOLEAN :
       \E conn \in {[ToConnection(records[c][idx[c]]) EXCEPT
                        !.ID = EffectiveID(req[c], @)]} :
        LET r == req[c]
            res == result[c]
            exists == conn.ID \in existingSet[c]
            targetFernet == NewFernet(r.TargetProfile.FernetKey).f
            draws1 == IF IsEmpty(conn.Password) THEN 0 ELSE 1
            draws2 == IF IsEmpty(conn.Extra) THEN 0 ELSE 1
            nf == (IF randFails1 THEN 1 ELSE 0) + (IF randFails2 THEN 1 ELSE 0)
                  + (IF storeFails THEN 1 ELSE 0)
        IN
        /\ faults + nf <= MaxFaults
        /\ faults' = faults + nf
        /\ UNCHANGED <<source, file, now, exp, req, records, existingSet>>
        /\ UNCHANGED storeVars
        /\ IF SkipsRecord(r.CollisionStrategy, exists)
           THEN /\ nf = 0
                /\ result' = [result EXCEPT ![c] = Skipped(res, conn.ID)]
                /\ idx' = [idx EXCEPT ![c] = @ + 1]
                /\ UNCHANGED <<target, rng, log, pc>>
           ELSE /\ randFails1 => draws1 = 1
                /\ randFails2 => draws2 = 1
                /\ rng' = rng + draws1 + draws2
                /\ \E enc \in {[conn EXCEPT
                        !.Password = ReEncrypt(targetFernet, @,
                                               Rand(rng + 1, ~randFails1), now),
                        !.Extra = ReEncrypt(targetFernet, @,
                                            Rand(rng + draws1 + 1, ~randFails2), now)]} :
                   \E w \in {WriteConnection(target, enc, exists, storeFails)} :
                     /\ target' = w.store
                     /\ log' = [log EXCEPT ![c] =
                            Append(@, Ev(IF exists THEN "update" ELSE "insert",
                                         <<enc.ID>>, RowOf(enc), w.err = ""))]
                     /\ IF w.err # ""
                        THEN /\ result' = [result EXCEPT ![c] =
                                    WriteFailed(res, exists, conn.ID)]
                             /\ pc' = [pc EXCEPT ![c] = "done"]
                             /\ UNCHANGED idx
                        ELSE /\ result' = [result EXCEPT ![c] =
                                    Written(res, exists, conn.ID)]
                             /\ idx' = [idx EXCEPT ![c] = @ + 1]
                             /\ UNCHANGED pc

\* core.go:258-259: the loop is over
ImportReturn(c) ==
    /\ pc[c] = "loop"
    /\ idx[c] > Len(records[c])
    /\ result' = [result EXCEPT ![c] = [@ EXCEPT !.Success = TRUE]]
    /\ pc' = [pc EXCEPT ![c] = "done"]
    /\ UNCHANGED <<source, target, file, now, rng, faults, exp, req, records,
                   existingSet, idx, log>>
    /\ UNCHANGED storeVars

-----------------------------------------------------------------------------
(* Migration engine: core/core.go, Export *)

NewExportResult ==
    [Success |-> FALSE, ConnectionCount |-> 0, ExportedIDs |-> <<>>,
     FileEncryptionKey |-> EmptyString, Error |-> ""]

NoExport == [pc |-> "off", req |-> <<>>, result |-> NewExportResult]

\* a variant that always writes under a key of its own
OwnFileKey(supplied, generated) == generated

\* core.go:47-55: the transport key is the caller's, or a generated one
FileKey(supplied, generated) ==
    IF IsEmpty(supplied) THEN generated ELSE supplied

\* a variant that exports the whole listing
FilterNothing(r, conns) == conns

\* core.go:70-83
FilterConnections(r, conns) ==
    IF Len(r.ConnectionIDs) > 0
    THEN SelectSeq(conns, LAMBDA x : x.ID \in Range(r.ConnectionIDs))
    ELSE conns

\* a variant that blanks a secret that does not decrypt
DecryptOrBlank(f, field) ==
    LET d == DecryptString(f, field) IN
    IF d.err = "" THEN d.val ELSE EmptyString

\* core.go:88-103: a secret that does not decrypt under the source key is
\* taken as plaintext
TolerantDecrypt(f, field) ==
    IF IsEmpty(field) THEN field
    ELSE LET d == DecryptString(f, field) IN
         IF d.err = "" THEN d.val ELSE field

\* core.go:87-108
DecryptConnection(f, conn) ==
    [conn EXCEPT !.Password = TolerantDecrypt(f, @), !.Extra = TolerantDecrypt(f, @)]

\* the faults of WriteEncryptedCSV on n records.  The writer is buffered: a
\* write error is reported only when a data row fills the buffer, and is lost
\* when it happens in the deferred Flush.
WriteFaults(n) ==
    {[NoWriteFault EXCEPT !.create = TRUE]}
    \cup {[NoWriteFault EXCEPT !.encAt = k] : k \in 1..n}
    \cup {[NoWriteFault EXCEPT !.flush = "reported", !.written = w] : w \in 0..(n - 1)}
    \cup {[NoWriteFault EXCEPT !.flush = "lost", !.written = w] : w \in 0..n}

\* the call returns: core.go's "return result, nil"
ExportReturn(r, res, f, draws, nf) ==
    /\ faults + nf <= MaxFaults
    /\ faults' = faults + nf
    /\ rng' = rng + draws
    /\ file' = f
    /\ exp' = [pc |-> "done", req |-> r, result |-> res]
    /\ UNCHANGED <<source, target, now, pc, req, records, existingSet, idx, result, log>>
    /\ UNCHANGED storeVars

\* core.go:22-119.  connectFails, randFails and listFails are the faults of
\* NewDatabase, of GenerateKey's rand.Read and of the listing query; fl is the
\* fault of the write phase.
Export ==
    /\ exp.pc = "idle"
    /\ \E r \in ExportRequests :
        LET res == NewExportResult
            generates == IsEmpty(r.FileEncryptionKey)
            draws == IF generates THEN 1 ELSE 0
        IN
        IF Validate(r.SourceProfile) # ""
        THEN ExportReturn(r, [res EXCEPT !.Error = Validate(r.SourceProfile)],
                          file, 0, 0)
        ELSE
        \/ ExportReturn(r, [res EXCEPT !.Error = "failed to connect to database"],
                        file, 0, 1)
        \/ IF NewFernet(r.SourceProfile.FernetKey).err # ""
           THEN ExportReturn(r, [res EXCEPT !.Error = "invalid source fernet key"],
                             file, 0, 0)
           ELSE
           \/ /\ generates
              /\ ExportReturn(r, [res EXCEPT !.Error = "failed to generate file key"],
                              file, 1, 1)
           \/ \E fileKey \in {FileKey(r.FileEncryptionKey,
                                       GenerateKey(rng + 1, TRUE).key)} :
              \E keyed \in {[res EXCEPT !.FileEncryptionKey =
                                FileKey(r.FileEncryptionKey,
                                        GenerateKey(rng + 1, TRUE).key)]} :
              IF NewFernet(keyed.FileEncryptionKey).err # ""
              THEN ExportReturn(r, [keyed EXCEPT !.Error = "invalid file encryption key"],
                                file, draws, 0)
              ELSE
              \/ ExportReturn(r, [keyed EXCEPT !.Error = "failed to list connections"],
                              file, draws, 1)
              \/ \E conns \in {FilterConnections(r, ListConnections(source, FALSE).conns)} :
                 \E recs \in {[i \in DOMAIN conns |->
                                ToExportRecord(
                                    DecryptConnection(NewFernet(r.SourceProfile.FernetKey).f,
                                                      conns[i]), now)]} :
                 \E listed \in {[keyed EXCEPT !.ExportedIDs =
                                    [i \in DOMAIN conns |-> conns[i].ID]]} :
                 \E fl \in {NoWriteFault} \cup WriteFaults(Len(recs)) :
                 \E w \in {WriteEncryptedCSV(file, recs, NewFernet(fileKey).f,
                                             rng + draws, now, fl)} :
                    IF w.err # ""
                    THEN ExportReturn(r, [listed EXCEPT !.Error = "failed to write CSV"],
                                      w.file, draws + Len(recs), 1)
                    ELSE ExportReturn(r, [listed EXCEPT !.Success = TRUE,
                                                        !.ConnectionCount = Len(recs)],
                                      w.file, draws + Len(recs),
                                      IF fl = NoWriteFault THEN 0 ELSE 1)

-----------------------------------------------------------------------------
(* Vault: secrets/store.go.  Keys and values are byte strings. *)

saltLength == 16
gcmNonceSize == 12
gcmTagSize == 16

ErrInvalidPassword == "invalid master password"
ErrKeyNotFound == "key not found"

\* json.Marshal(s.data): the object's members, sorted by map key, each key and
\* value written as a JSON string
MarshalMap(m) ==
    LET keys == SortIDs(DOMAIN m) IN
    [i \in 1..Len(keys) |-> <<CoerceUTF8(keys[i]), CoerceUTF8(m[keys[i]])>>]

\* json.Unmarshal(plaintext, &s.data): members are stored in document order, a
\* repeated key keeps its last value
RECURSIVE UnmarshalInto(_, _)
UnmarshalInto(m, members) ==
    IF members = <<>> THEN m
    ELSE LET k == Head(members)[1]
             v == Head(members)[2]
         IN UnmarshalInto([x \in DOMAIN m \cup {k} |-> IF x = k THEN v ELSE m[x]],
                          Tail(members))

\* len(plaintext) of a marshalled map: braces, and per member quotes, colon,
\* comma
RECURSIVE TextLen(_)
TextLen(members) ==
    IF members = <<>> THEN 2
    ELSE Len(Head(members)[1]) + Len(Head(members)[2]) + 6 + TextLen(Tail(members))

\* argon2.IDKey, symbolic: the key remembers password and salt
IDKey(password, salt) == [pw |-> password, salt |-> salt]

NoKey == IDKey("", <<>>)

\* gcm.Seal(nonce, nonce, plaintext, nil), symbolic
Seal(key, nonce, plaintext) ==
    [form |-> "sealed", key |-> key, nonce |-> nonce, pt |-> plaintext,
     len |-> gcmNonceSize + TextLen(plaintext) + gcmTagSize]

\* the first n bytes of a sealed text, n less than its length
Prefix(n) == [form |-> "prefix", key |-> NoKey, nonce |-> <<>>, pt |-> <<>>, len |-> n]

\* Store.encrypt: nonce is the outcome of rand.Read
StoreEncrypt(key, plaintext, rnd) ==
    IF ~rnd.ok THEN [err |-> ErrRand, val |-> Prefix(0)]
    ELSE [err |-> "", val |-> Seal(key, rnd.nonce, plaintext)]

\* a variant that opens a sealed text under any key
StoreDecryptAnyKey(key, ciphertext) ==
    IF ciphertext.form = "sealed" THEN [err |-> "", val |-> ciphertext.pt]
    ELSE [err |-> "cipher: message authentication failed", val |-> <<>>]

\* Store.decrypt
StoreDecrypt(key, ciphertext) ==
    IF ciphertext.len < gcmNonceSize
    THEN [err |-> "ciphertext too short", val |-> <<>>]
    ELSE IF ciphertext.form = "sealed" /\ ciphertext.key = key
    THEN [err |-> "", val |-> ciphertext.pt]
    ELSE [err |-> "cipher: message authentication failed", val |-> <<>>]

NoVaultFile == [exists |-> FALSE, content |-> Prefix(0)]

NoSaltFile == [exists |-> FALSE, content |-> <<>>]

\* the ways os.WriteFile fails: the file cannot be opened; a write fails after
\* the file was truncated ("truncated": nothing written, "short": a part
\* written); the close fails after everything was written
WriteFileFaults == {"open", "truncated", "short", "close"}

\* os.WriteFile(name, data, 0600): O_WRONLY|O_CREATE|O_TRUNC, Write, Close
WriteFile(old, content, short, fault) ==
    CASE fault = "" -> [err |-> "", file |-> [exists |-> TRUE, content |-> content]]
      [] fault = "open" -> [err |-> "open failed", file |-> old]
      [] fault = "truncated" ->
            [err |-> "write failed", file |-> [exists |-> TRUE, content |-> Prefix(0)]]
      [] fault = "short" ->
            [err |-> "write failed", file |-> [exists |-> TRUE, content |-> short]]
      [] fault = "close" ->
            [err |-> "close failed", file |-> [exists |-> TRUE, content |-> content]]

\* Store.getOrCreateSalt: rnd is the outcome of rand.Read(salt); fault "read":
\* os.ReadFile of the salt file fails, which the code takes as "no salt yet"
getOrCreateSalt(saltFile, rnd, fault) ==
    IF saltFile.exists /\ Len(saltFile.content) = saltLength /\ fault # "read"
    THEN [err |-> "", salt |-> saltFile.content, file |-> saltFile]
    ELSE IF ~rnd.ok
    THEN [err |-> "failed to get salt", salt |-> <<>>, file |-> saltFile]
    ELSE LET w == IF fault \in {"", "read"} THEN [err |-> "", file |-> [exists |-> TRUE, content |-> rnd.salt]]
                  ELSE IF fault = "open" THEN [err |-> "open failed", file |-> saltFile]
                  ELSE IF fault = "close"
                  THEN [err |-> "close failed", file |-> [exists |-> TRUE, content |-> rnd.salt]]
                  ELSE [err |-> "write failed", file |-> [exists |-> TRUE, content |-> <<>>]]
         IN IF w.err # "" THEN [err |-> "failed to get salt", salt |-> <<>>, file |-> w.file]
            ELSE [err |-> "", salt |-> rnd.salt, file |-> w.file]

\* Store.load
StoreLoad(key, dataFile) ==
    LET plaintext == StoreDecrypt(key, dataFile.content) IN
    IF plaintext.err # "" THEN [err |-> ErrInvalidPassword, data |-> <<>>]
    ELSE [err |-> "", data |-> UnmarshalInto(<<>>, plaintext.val)]

\* Store.save: rnd is the outcome of rand.Read(nonce)
StoreSave(key, data, dataFile, rnd, fault) ==
    LET ciphertext == StoreEncrypt(key, MarshalMap(data), rnd) IN
    IF ciphertext.err # "" THEN [err |-> "failed to encrypt data", file |-> dataFile]
    ELSE LET w == WriteFile(dataFile, ciphertext.val, Prefix(gcmNonceSize), fault) IN
         IF w.err # "" THEN [err |-> "failed to write credentials file", file |-> w.file]
         ELSE [err |-> "", file |-> w.file]

\* Exists(configDir)
Exists(dataFile) == dataFile.exists

-----------------------------------------------------------------------------
(* Vault: the Store instances of one storage directory and the threads that
   call them *)

MaxDraws == 3

Vaults == {1, 2}
Threads == {1, 2}
Passwords == {"P", "P2"}
VaultKeys == {<<107>>, <<255>>}
VaultValues == {<<49>>, <<255>>}

Op(name, key, value) == [name |-> name, key |-> key, value |-> value]

NoOp == Op("", <<>>, <<>>)

Mutations == {"Set", "Delete", "Clear"}

VaultOps ==
    {Op("Set", k, v) : k \in VaultKeys, v \in VaultValues}
        \cup {Op(n, k, <<>>) : n \in {"Get", "Has", "Delete"}, k \in VaultKeys}
        \cup {Op("List", <<>>, <<>>), Op("Clear", <<>>, <<>>)}

ClosedVault == [open |-> FALSE, key |-> NoKey, data |-> <<>>]

NoRet == [done |-> FALSE, err |-> "", val |-> <<>>, ok |-> FALSE, keys |-> <<>>]

Ret(err, val, ok, keys) == [done |-> TRUE, err |-> err, val |-> val, ok |-> ok, keys |-> keys]

NoBefore == [data |-> <<>>, file |-> NoVaultFile]

IdleThread == [pc |-> "idle", v |-> 0, op |-> NoOp, ret |-> NoRet, before |-> NoBefore]

NoNew ==
    [done |-> FALSE, v |-> 0, pw |-> "", fault |-> "", err |-> "", before |-> NoVaultFile]

NoLast == [closed |-> FALSE, key |-> NoKey, data |-> <<>>, clean |-> TRUE]

NoCodec ==
    [pc |-> "idle", k1 |-> EmptyString, p |-> EmptyString, token |-> EmptyString,
     field |-> "", k2 |-> EmptyString, err |-> "", out |-> EmptyString, valid |-> FALSE,
     steps |-> <<>>]

\* an empty storage directory, no Store, n threads that may call one
VaultIdle(n) ==
    /\ disk = [salt |-> NoSaltFile, data |-> NoVaultFile]
    /\ vaults = [v \in Vaults |-> ClosedVault]
    /\ mu = [v \in Vaults |-> [w |-> 0, r |-> {}]]
    /\ threads = [t \in Threads |-> IF t <= n THEN IdleThread
                                    ELSE [IdleThread EXCEPT !.pc = "off"]]
    /\ hist = [spec |-> <<>>, clean |-> TRUE, replaced |-> FALSE, last |-> NoLast,
               new |-> NoNew]

\* no profile is being saved or loaded
NoProf == [pc |-> "idle"]

\* the interchange file functions are not in use
NoCSV == [pc |-> "idle", recs |-> <<>>, key |-> EmptyString, readKey |-> EmptyString,
          err |-> NoErr, out |-> <<>>]

StoreIdle ==
    /\ codec = NoCodec
    /\ csv = NoCSV
    /\ prof = NoProf
    /\ VaultIdle(0)

\* the steps of New that can fail, given the salt file: os.MkdirAll; the
\* os.ReadFile of a salt that is there; and when a salt has to be created
\* rand.Read and os.WriteFile
NewFaults(saltFile) ==
    {"", "mkdir"} \cup
        IF saltFile.exists /\ Len(saltFile.content) = saltLength THEN {"read"}
        ELSE {"rand"} \cup WriteFileFaults

\* New(configDir, password)
New(d, password, n, fl) ==
    IF fl = "mkdir"
    THEN [err |-> "failed to create config directory", store |-> ClosedVault, disk |-> d]
    ELSE LET s == getOrCreateSalt(d.salt, [ok |-> fl # "rand", salt |-> RandBytes(n, saltLength)],
                                  IF fl \in WriteFileFaults \cup {"read"} THEN fl ELSE "")
             key == IDKey(password, s.salt)
             l == StoreLoad(key, d.data)
             d2 == [d EXCEPT !.salt = s.file]
         IN IF s.err # "" THEN [err |-> s.err, store |-> ClosedVault, disk |-> d2]
            ELSE IF ~d.data.exists
            THEN [err |-> "", store |-> [open |-> TRUE, key |-> key, data |-> <<>>], disk |-> d2]
            ELSE IF l.err # "" THEN [err |-> l.err, store |-> ClosedVault, disk |-> d2]
            ELSE [err |-> "", store |-> [open |-> TRUE, key |-> key, data |-> l.data],
                  disk |-> d2]

\* a process opens the vault; processes run one after another, each with the
\* first instance that is free
VaultNew(v) ==
    /\ \A w \in Vaults : ~vaults[w].open
    /\ \A w \in Vaults : w >= v
    /\ \E password \in Passwords, fl \in NewFaults(disk.salt) :
        /\ fl # "" => faults < MaxFaults
        /\ \E r \in {New(disk, password, rng, fl)} :
            /\ disk' = r.disk
            /\ vaults' = [vaults EXCEPT ![v] = r.store]
            /\ hist' = [hist EXCEPT
                    !.spec = IF r.err = "" THEN r.store.data ELSE @,
                    !.clean = IF r.err = "" THEN TRUE ELSE @,
                    !.replaced = IF r.err = "" THEN FALSE ELSE @,
                    !.new = [done |-> TRUE, v |-> v, pw |-> password, fault |-> fl,
                             err |-> r.err, before |-> disk.data]]
        /\ faults' = IF fl = "" THEN faults ELSE faults + 1
        /\ rng' = IF disk'.salt # disk.salt \/ fl = "rand" THEN rng + 1 ELSE rng
    /\ UNCHANGED <<prof, csv, codec, mu, threads>>
    /\ UNCHANGED engineVars

\* the process ends: its Store is gone, the files stay
VaultDrop(v) ==
    /\ vaults[v].open
    /\ \A t \in Threads : threads[t].v # v
    /\ vaults' = [vaults EXCEPT ![v] = ClosedVault]
    /\ hist' = [hist EXCEPT
            !.last = [closed |-> TRUE, key |-> vaults[v].key, data |-> vaults[v].data,
                      clean |-> hist.clean],
            !.new = NoNew]
    /\ UNCHANGED <<prof, csv, codec, disk, mu, threads, rng, faults>>
    /\ UNCHANGED engineVars

\* s.mu.Lock()
CanLock(m) == m.w = 0 /\ m.r = {}

\* s.mu.RLock()
CanRLock(m) == m.w = 0

\* a thread calls an operation of a live Store and takes the lock the operation
\* starts with; threads keep nothing between calls, so when both are idle it
\* is thread 1 that calls.  Mutations are called while random draws remain.
Acquire(t) ==
    /\ threads[t].pc = "idle"
    /\ \A u \in Threads : u < t => threads[u].pc # "idle"
    /\ \E v \in Vaults, op \in VaultOps :
        /\ vaults[v].open
        /\ op.name \in Mutations => rng < MaxDraws
        /\ IF op.name \in Mutations
           THEN /\ CanLock(mu[v])
                /\ mu' = [mu EXCEPT ![v].w = t]
           ELSE /\ CanRLock(mu[v])
                /\ mu' = [mu EXCEPT ![v].r = @ \cup {t}]
        /\ threads' = [threads EXCEPT ![t] = [IdleThread EXCEPT !.pc = "locked", !.v = v,
                                                                 !.op = op]]
    /\ hist' = [hist EXCEPT !.new = NoNew]
    /\ UNCHANGED <<prof, csv, codec, disk, vaults, rng, faults>>
    /\ UNCHANGED engineVars

Running(t, name) == threads[t].pc = "locked" /\ threads[t].op.name = name

Returns(t, ret) ==
    threads' = [threads EXCEPT ![t].pc = "unlocking", ![t].ret = ret]

\* a lookup that yields the zero value for a key that is absent
LookupZero(data, key) ==
    IF key \in DOMAIN data THEN Ret("", data[key], FALSE, <<>>)
    ELSE Ret("", <<>>, FALSE, <<>>)

\* value, ok := s.data[key]; if !ok { return "", ErrKeyNotFound }
Lookup(data, key) ==
    IF key \in DOMAIN data THEN Ret("", data[key], FALSE, <<>>)
    ELSE Ret(ErrKeyNotFound, <<>>, FALSE, <<>>)

\* Get(key)
Get(t) ==
    /\ Running(t, "Get")
    /\ Returns(t, Lookup(vaults[threads[t].v].data, threads[t].op.key))
    /\ UNCHANGED <<prof, csv, codec, disk, vaults, mu, hist, rng, faults>>
    /\ UNCHANGED engineVars

\* Has(key)
Has(t) ==
    /\ Running(t, "Has")
    /\ Returns(t, Ret("", <<>>, threads[t].op.key \in DOMAIN vaults[threads[t].v].data, <<>>))
    /\ UNCHANGED <<prof, csv, codec, disk, vaults, mu, hist, rng, faults>>
    /\ UNCHANGED engineVars

\* List(): the keys in the order the map iteration yields them
List(t) ==
    /\ Running(t, "List")
    /\ \E keys \in Orders(DOMAIN vaults[threads[t].v].data) :
        Returns(t, Ret("", <<>>, FALSE, keys))
    /\ UNCHANGED <<prof, csv, codec, disk, vaults, mu, hist, rng, faults>>
    /\ UNCHANGED engineVars

\* the first half of a mutation: the map is changed, save() is next
Mutates(t, data) ==
    /\ vaults' = [vaults EXCEPT ![threads[t].v].data = data]
    /\ threads' = [threads EXCEPT
            ![t].pc = "saving",
            ![t].before = [data |-> vaults[threads[t].v].data, file |-> disk.data]]

\* an assignment that keeps the value of a key that is present
AssignIfAbsent(data, key, value) ==
    [k \in DOMAIN data \cup {key} |-> IF k \in DOMAIN data THEN data[k] ELSE value]

\* s.data[key] = value
Assign(data, key, value) ==
    [k \in DOMAIN data \cup {key} |-> IF k = key THEN value ELSE data[k]]

\* Set(key, value)
Set(t) ==
    /\ Running(t, "Set")
    /\ Mutates(t, Assign(vaults[threads[t].v].data, threads[t].op.key, threads[t].op.value))
    /\ UNCHANGED <<prof, csv, codec, disk, mu, hist, rng, faults>>
    /\ UNCHANGED engineVars

\* Delete(key): ErrKeyNotFound, or delete(s.data, key)
Delete(t) ==
    /\ Running(t, "Delete")
    /\ LET data == vaults[threads[t].v].data
           key == threads[t].op.key
       IN IF key \notin DOMAIN data
          THEN /\ threads' = [threads EXCEPT
                       ![t].pc = "unlocking",
                       ![t].ret = Ret(ErrKeyNotFound, <<>>, FALSE, <<>>),
                       ![t].before = [data |-> data, file |-> disk.data]]
               /\ UNCHANGED vaults
          ELSE Mutates(t, [k \in DOMAIN data \ {key} |-> data[k]])
    /\ UNCHANGED <<prof, csv, codec, disk, mu, hist, rng, faults>>
    /\ UNCHANGED engineVars

\* Clear(): s.data = make(map[string]string)
Clear(t) ==
    /\ Running(t, "Clear")
    /\ Mutates(t, <<>>)
    /\ UNCHANGED <<prof, csv, codec, disk, mu, hist, rng, faults>>
    /\ UNCHANGED engineVars

\* the mapping that the calls define: Set binds the key to the value, Delete
\* removes the key, Clear removes every key
Defined(m, op) ==
    CASE op.name = "Set" -> [k \in DOMAIN m \cup {op.key} |->
                                IF k = op.key THEN op.value ELSE m[k]]
      [] op.name = "Delete" -> [k \in DOMAIN m \ {op.key} |-> m[k]]
      [] op.name = "Clear" -> <<>>

\* op gives a key of m another value
Replaces(m, op) ==
    op.name = "Set" /\ op.key \in DOMAIN m /\ m[op.key] # op.value

\* the steps of save() that can fail: rand.Read of the nonce, os.WriteFile
SaveFaults == {"", "rand"} \cup WriteFileFaults

\* the second half of a mutation: return s.save()
Save(t) ==
    /\ threads[t].pc = "saving"
    /\ \E fl \in SaveFaults :
        /\ fl # "" => faults < MaxFaults
        /\ \E r \in {StoreSave(vaults[threads[t].v].key, vaults[threads[t].v].data, disk.data,
                               [ok |-> fl # "rand", nonce |-> RandBytes(rng, gcmNonceSize)],
                               IF fl \in WriteFileFaults THEN fl ELSE "")} :
            /\ disk' = [disk EXCEPT !.data = r.file]
            /\ Returns(t, Ret(r.err, <<>>, FALSE, <<>>))
            /\ hist' = [hist EXCEPT
                    !.spec = IF r.err = "" THEN Defined(@, threads[t].op) ELSE @,
                    !.replaced = @ \/ (r.err = "" /\ Replaces(hist.spec, threads[t].op)),
                    !.clean = @ /\ r.err = ""]
        /\ faults' = IF fl = "" THEN faults ELSE faults + 1
    /\ rng' = rng + 1
    /\ UNCHANGED <<prof, csv, codec, vaults, mu>>
    /\ UNCHANGED engineVars

\* the deferred Unlock or RUnlock, and the return to the caller
Release(t) ==
    /\ threads[t].pc = "unlocking"
    /\ mu' = [mu EXCEPT ![threads[t].v] =
                [w |-> IF @.w = t THEN 0 ELSE @.w, r |-> @.r \ {t}]]
    /\ threads' = [threads EXCEPT ![t] = IdleThread]
    /\ UNCHANGED <<prof, csv, codec, disk, vaults, hist, rng, faults>>
    /\ UNCHANGED engineVars

\* the migration engine at rest
EngineIdle ==
    /\ source = <<>>
    /\ target = <<>>
    /\ file = NoFile
    /\ now = 9
    /\ exp = NoExport
    /\ pc = [c \in Callers |-> "off"]
    /\ req = [c \in Callers |-> NoRequest]
    /\ records = [c \in Callers |-> <<>>]
    /\ existingSet = [c \in Callers |-> {}]
    /\ idx = [c \in Callers |-> 0]
    /\ result = [c \in Callers |-> NewImportResult]
    /\ log = [c \in Callers |-> <<>>]

\* processes that open the vault one after another, each calling it from one
\* thread
InitVault ==
    /\ EngineIdle
    /\ codec = NoCodec
    /\ csv = NoCSV
    /\ prof = NoProf
    /\ VaultIdle(1)
    /\ rng = 0
    /\ faults = 0

NextVault ==
    \/ \E v \in Vaults :
        \/ VaultNew(v)
        \/ VaultDrop(v)
    \/ \E t \in Threads :
        \/ Acquire(t)
        \/ Get(t)
        \/ Has(t)
        \/ List(t)
        \/ Set(t)
        \/ Delete(t)
        \/ Clear(t)
        \/ Save(t)
        \/ Release(t)

SpecVault == InitVault /\ [][NextVault]_vars

\* one process that opens the vault and calls it from all its threads
InitVaultThreads ==
    /\ EngineIdle
    /\ codec = NoCodec
    /\ csv = NoCSV
    /\ prof = NoProf
    /\ VaultIdle(Cardinality(Threads))
    /\ rng = 0
    /\ faults = 0

NextVaultThreads ==
    \/ \E v \in Vaults : VaultNew(v)
    \/ \E t \in Threads :
        \/ Acquire(t)
        \/ Get(t)
        \/ Has(t)
        \/ List(t)
        \/ Set(t)
        \/ Delete(t)
        \/ Clear(t)
        \/ Save(t)
        \/ Release(t)

SpecVaultThreads == InitVaultThreads /\ [][NextVaultThreads]_vars

\* a process opens the vault while the Store of another process may be live on
\* the same storage directory (the web server and the TUI, README.md:69)
VaultNewBeside(v) ==
    /\ ~vaults[v].open
    /\ \A w \in Vaults : w < v => vaults[w].open
    /\ \E password \in Passwords, fl \in NewFaults(disk.salt) :
        /\ fl # "" => faults < MaxFaults
        /\ \E r \in {New(disk, password, rng, fl)} :
            /\ disk' = r.disk
            /\ vaults' = [vaults EXCEPT ![v] = r.store]
            /\ hist' = [hist EXCEPT
                    !.spec = IF r.err = "" /\ \A w \in Vaults : ~vaults[w].open
                             THEN r.store.data ELSE @,
                    !.new = [done |-> TRUE, v |-> v, pw |-> password, fault |-> fl,
                             err |-> r.err, before |-> disk.data]]
        /\ faults' = IF fl = "" THEN faults ELSE faults + 1
        /\ rng' = IF disk'.salt # disk.salt \/ fl = "rand" THEN rng + 1 ELSE rng
    /\ UNCHANGED <<prof, csv, codec, mu, threads>>
    /\ UNCHANGED engineVars

\* two processes with a Store each on one storage directory; their calls
\* follow one another
NextVaultShared ==
    \/ \E v \in Vaults : VaultNewBeside(v)
    \/ \E t \in Threads :
        \/ Acquire(t)
        \/ Get(t)
        \/ Has(t)
        \/ List(t)
        \/ Set(t)
        \/ Delete(t)
        \/ Clear(t)
        \/ Save(t)
        \/ Release(t)

SpecVaultShared == InitVault /\ [][NextVaultShared]_vars

-----------------------------------------------------------------------------
(* Profiles in the vault: saved by the web form (htmxSaveProfile), the JSON
   API (handleSaveProfile) or the TUI (saveProfile); loaded by
   Server.loadProfile or Model.loadFullProfile.  The entries are those of the
   Store's map: Set is Assign, Get is Lookup. *)

FrontEnds == {"form", "api", "tui"}
Loaders == {"web", "tui"}

\* a name that holds a double quote
QuotedName == "o\"k"

\* the text needs escaping to stand inside a JSON string
NeedsEscaping(s) == s = QuotedName

\* generateID(): the clock as text, for a profile that is new
GeneratedID == "2"

NoProfile ==
    [ID |-> "", Name |-> "", DBHost |-> "", DBPort |-> 0, DBName |-> "", DBUser |-> "",
     DBPassword |-> "", FernetKey |-> EmptyString]

metaKey(id) == <<"profile", id, "meta">>

\* Profile.GetSecretKeys
GetSecretKeys(p) ==
    [Password |-> <<"profile", p.ID, "password">>,
     FernetKey |-> <<"profile", p.ID, "fernet">>]

\* a JSON object, by its members; text that is not JSON
JSONObject(members) == [valid |-> TRUE, members |-> members]
NotJSON == [valid |-> FALSE, members |-> [id |-> ""]]

\* Profile.Summary, under the json tags of ProfileSummary
Summary(p, t) ==
    [id |-> p.ID, name |-> p.Name, db_host |-> p.DBHost, db_port |-> p.DBPort,
     db_name |-> p.DBName, created_at |-> t, updated_at |-> t]

\* profileToJSON: json.Marshal of the non-secret fields
profileToJSON(p) ==
    JSONObject([id |-> p.ID, name |-> p.Name, db_host |-> p.DBHost,
                db_port |-> p.DBPort, db_name |-> p.DBName, db_user |-> p.DBUser])

\* the metadata as the TUI writes it: fmt.Sprintf puts the values between
\* quotes as they are
SprintfMeta(p) ==
    IF \E x \in {p.ID, p.Name, p.DBHost, p.DBName, p.DBUser} : NeedsEscaping(x)
    THEN NotJSON
    ELSE JSONObject([id |-> p.ID, name |-> p.Name, db_host |-> p.DBHost,
                     db_port |-> p.DBPort, db_name |-> p.DBName, db_user |-> p.DBUser])

\* a member of a JSON object, or the zero value of the field it is read into
Member(m, k, zero) == IF k \in DOMAIN m THEN m[k] ELSE zero

\* json.Unmarshal of the metadata into a Profile (into the six fields of the
\* TUI's struct: the same members)
UnmarshalProfile(m) ==
    [NoProfile EXCEPT !.ID = Member(m, "id", ""), !.Name = Member(m, "name", ""),
                      !.DBHost = Member(m, "db_host", ""),
                      !.DBPort = Member(m, "db_port", 0),
                      !.DBName = Member(m, "db_name", ""),
                      !.DBUser = Member(m, "db_user", "")]

\* the secrets of the profile under id, read into p when they are there
WithSecrets(entries, id, p) ==
    LET keys == GetSecretKeys([ID |-> id])
        pw == Lookup(entries, keys.Password)
        fk == Lookup(entries, keys.FernetKey)
    IN [p EXCEPT !.DBPassword = IF pw.err = "" THEN pw.val ELSE @,
                 !.FernetKey = IF fk.err = "" THEN fk.val ELSE @]

\* Server.loadProfile: the secrets are looked up under the id of the metadata
loadProfile(entries, id) ==
    LET meta == Lookup(entries, metaKey(id)) IN
    IF meta.err # "" THEN [found |-> FALSE, profile |-> NoProfile]
    ELSE IF ~meta.val.valid THEN [found |-> FALSE, profile |-> NoProfile]
    ELSE LET p == UnmarshalProfile(meta.val.members) IN
         [found |-> TRUE, profile |-> WithSecrets(entries, p.ID, p)]

\* Model.loadFullProfile: the secrets are looked up under the id asked for
loadFullProfile(entries, id) ==
    LET meta == Lookup(entries, metaKey(id)) IN
    IF meta.err # "" THEN [found |-> FALSE, profile |-> NoProfile]
    ELSE IF ~meta.val.valid THEN [found |-> FALSE, profile |-> NoProfile]
    ELSE [found |-> TRUE,
          profile |-> WithSecrets(entries, id, UnmarshalProfile(meta.val.members))]

\* what a save handler leaves: whether it reported the profile as saved, the
\* profile it wrote, the entries of the Store
SaveOutcome(ok, p, entries) == [ok |-> ok, saved |-> p, entries |-> entries]

\* htmxSaveProfile: form is the posted form, editing says that it carries the
\* id of an existing profile.  The errors of Set are not looked at.
htmxSaveProfile(entries, form, editing) ==
    LET id == IF editing THEN form.ID ELSE GeneratedID
        existing == loadProfile(entries, id)
        profile ==
            IF ~editing THEN [form EXCEPT !.ID = id]
            ELSE IF ~existing.found
            THEN [form EXCEPT !.ID = id, !.DBPassword = "", !.FernetKey = EmptyString]
            ELSE [form EXCEPT
                    !.ID = id,
                    !.DBPassword = IF @ = "" THEN existing.profile.DBPassword ELSE @,
                    !.FernetKey = IF IsEmpty(@) THEN existing.profile.FernetKey ELSE @]
        keys == GetSecretKeys(profile)
        e1 == Assign(entries, keys.Password, profile.DBPassword)
        e2 == Assign(e1, keys.FernetKey, profile.FernetKey)
    IN SaveOutcome(TRUE, profile, Assign(e2, metaKey(profile.ID), profileToJSON(profile)))

\* handleSaveProfile: body is the profile of the request; failAt is the Set
\* that returns an error (0: none), after which the handler answers with the
\* error.  An empty secret is not stored.
handleSaveProfile(entries, body, failAt, t) ==
    LET keys == GetSecretKeys(body)
        e1 == IF body.DBPassword # "" THEN Assign(entries, keys.Password, body.DBPassword)
              ELSE entries
        e2 == IF ~IsEmpty(body.FernetKey) THEN Assign(e1, keys.FernetKey, body.FernetKey)
              ELSE e1
        e3 == Assign(e2, metaKey(body.ID), JSONObject(Summary(body, t)))
    IN IF failAt = 1 /\ body.DBPassword # "" THEN SaveOutcome(FALSE, body, e1)
       ELSE IF failAt = 2 /\ ~IsEmpty(body.FernetKey) THEN SaveOutcome(FALSE, body, e2)
       ELSE SaveOutcome(failAt # 3, body, e3)

\* Model.saveProfile: inputs are the fields of the form, editing says that an
\* existing profile is edited, generated is the outcome of GenerateFernetKey.
\* The errors of Set are not looked at.
saveProfile(entries, inputs, editing, generated) ==
    LET id == IF editing THEN inputs.ID ELSE GeneratedID
        existing == loadFullProfile(entries, id)
        kept == editing /\ existing.found
        password == IF kept /\ inputs.DBPassword = "" THEN existing.profile.DBPassword
                    ELSE inputs.DBPassword
        given == IF kept /\ IsEmpty(inputs.FernetKey) THEN existing.profile.FernetKey
                 ELSE inputs.FernetKey
        fernet == IF IsEmpty(given) /\ generated.err = "" THEN generated.key ELSE given
        profile == [inputs EXCEPT !.ID = id, !.DBPassword = password, !.FernetKey = fernet]
        e1 == Assign(entries, metaKey(id), SprintfMeta(profile))
        e2 == Assign(e1, <<"profile", id, "password">>, password)
    IN IF inputs.Name = "" \/ inputs.DBHost = "" \/ inputs.DBName = "" \/ inputs.DBUser = ""
       THEN SaveOutcome(FALSE, NoProfile, entries)
       ELSE IF ~editing /\ password = "" THEN SaveOutcome(FALSE, NoProfile, entries)
       ELSE SaveOutcome(TRUE, profile, Assign(e2, <<"profile", id, "fernet">>, fernet))

\* the profile the user enters
GivenProfiles ==
    {[GoodProfile(k) EXCEPT !.Name = n, !.DBUser = u] @@ [DBPassword |-> pw] :
        n \in {"Dev", QuotedName}, u \in {"airflow", ""}, pw \in {"pw", ""},
        k \in {K1, EmptyString}}

\* the entries of a profile that the web form saved earlier, as a new
\* profile, under the identifier "1"
OldEntries ==
    LET old == GoodProfile(K2) @@ [DBPassword |-> "old"]
        keys == GetSecretKeys(old)
    IN Assign(Assign(Assign(<<>>, keys.Password, old.DBPassword),
                     keys.FernetKey, old.FernetKey),
              metaKey(old.ID), profileToJSON(old))

\* a front end saves the profile
ProfileSave(f) ==
    /\ prof.pc = "given"
    /\ \E failAt \in 0..3, randFails \in BOOLEAN :
        LET generates == f = "tui" /\ IsEmpty(prof.given.FernetKey)
                         /\ ~(prof.editing /\ loadFullProfile(prof.entries, prof.given.ID).found)
            nf == (IF failAt > 0 THEN 1 ELSE 0) + (IF randFails THEN 1 ELSE 0)
        IN
        /\ failAt > 0 => f = "api"
        /\ randFails => generates
        /\ faults + nf <= MaxFaults
        /\ faults' = faults + nf
        /\ rng' = IF generates THEN rng + 1 ELSE rng
        /\ \E r \in {CASE f = "form" -> htmxSaveProfile(prof.entries, prof.given, prof.editing)
                       [] f = "api" -> handleSaveProfile(prof.entries, prof.given, failAt, now)
                       [] f = "tui" -> saveProfile(prof.entries, prof.given, prof.editing,
                                                   GenerateKey(rng + 1, ~randFails))} :
            prof' = [prof EXCEPT !.pc = IF r.ok THEN "saved" ELSE "refused", !.via = f,
                                 !.saved = r.saved, !.entries = r.entries]
    /\ UNCHANGED engineVars
    /\ UNCHANGED <<csv, codec, disk, vaults, mu, threads, hist>>

\* a front end loads the profile by the identifier it was saved under
ProfileLoad(l) ==
    /\ prof.pc = "saved"
    /\ \E r \in {IF l = "web" THEN loadProfile(prof.entries, prof.saved.ID)
                 ELSE loadFullProfile(prof.entries, prof.saved.ID)} :
        prof' = [prof EXCEPT !.pc = "loaded", !.by = l, !.found = r.found,
                             !.out = r.profile]
    /\ UNCHANGED <<rng, faults>>
    /\ UNCHANGED engineVars
    /\ UNCHANGED <<csv, codec, disk, vaults, mu, threads, hist>>

InitProfile ==
    /\ EngineIdle
    /\ codec = NoCodec /\ csv = NoCSV
    /\ VaultIdle(0)
    /\ prof \in {[pc |-> "given", given |-> g, editing |-> e, entries |-> en, via |-> "",
                  saved |-> NoProfile, by |-> "", found |-> FALSE, out |-> NoProfile] :
                    g \in GivenProfiles, e \in BOOLEAN, en \in {<<>>, OldEntries}}
    /\ rng = 0
    /\ faults = 0

NextProfile ==
    \/ \E f \in FrontEnds : ProfileSave(f)
    \/ \E l \in Loaders : ProfileLoad(l)

SpecProfile == InitProfile /\ [][NextProfile]_vars

-----------------------------------------------------------------------------
(* Specification of the codec: a token is made, possibly changed in one
   field, and decrypted *)

\* keys that share the signing half, the encryption half, or neither
CodecKeys == {KeyOf(1, 2), KeyOf(1, 238), KeyOf(1, 4), KeyOf(3, 2), KeyOf(3, 4)}

\* plaintexts of 0, 1, 15, 16, 17 and 32 bytes; some end in bytes that look
\* like padding
CodecPlaintexts ==
    {Plain(<<>>), Plain(<<1>>), Plain([i \in 1..15 |-> 65]), Plain([i \in 1..16 |-> 16]),
     Plain([i \in 1..17 |-> 66]), Plain([i \in 1..32 |-> 67 + (i % 2)])}

\* the buffer with its first byte changed
FlipFirst(buf) ==
    IF buf.body.kind = "plain" /\ buf.body.val # <<>>
    THEN [buf EXCEPT !.body.val[1] = (@ + 1) % 256]
    ELSE [buf EXCEPT !.pad[1] = (@ + 1) % 256]

\* tokens that differ from token in the one field named: another version
\* byte, another timestamp, another IV, ciphertext bytes of the same or of a
\* greater length, other signature bytes
Tampered(token) ==
    LET d == token.val
        With(field, x) == [field |-> field, token |-> [token EXCEPT !.val[field] = x]]
    IN {With("version", 0), With("version", 129),
        With("timestamp", d.timestamp + 1),
        With("iv", [i \in 1..fernetIVLen |-> (d.iv[i] + 1) % 256]),
        With("ciphertext", [d.ciphertext EXCEPT !.pt = FlipFirst(@)]),
        With("ciphertext", [d.ciphertext EXCEPT !.pt.pad = @ \o [i \in 1..BlockSize |-> 0]]),
        With("hmac", [d.hmac EXCEPT !.sk = [i \in 1..Len(@) |-> (@[i] + 1) % 256]]),
        With("hmac", [d.hmac EXCEPT !.msg.timestamp = @ + 1])}

\* strings given as keys: 32 bytes in padded URL-safe or standard base64, in
\* characters common to both, 24 and 33 bytes, text that is not base64, the
\* empty string, and the 43 characters of a key without its padding
KeyStrings ==
    {KeyOf(1, 2), B64("std", TRUE, [i \in 1..fernetKeyLen |-> 251]),
     B64("both", TRUE, [i \in 1..fernetKeyLen |-> 0]),
     ShortKey, B64("std", TRUE, [i \in 1..33 |-> 9]), NotBase64Key, EmptyString,
     B64("url", FALSE, [i \in 1..fernetKeyLen |-> 1])}

\* the codec is between two uses
CodecAtRest == codec.pc \in {"idle", "failed", "decrypted", "generated", "validated"}

\* GenerateKey()
CodecGenerateKey ==
    /\ CodecAtRest
    /\ rng < MaxDraws
    /\ \E ok \in BOOLEAN :
        /\ ~ok => faults < MaxFaults
        /\ \E r \in {GenerateKey(rng + 1, ok)} :
            codec' = [NoCodec EXCEPT !.pc = IF r.err = "" THEN "generated" ELSE "failed",
                                     !.k1 = r.key, !.err = r.err]
        /\ faults' = IF ok THEN faults ELSE faults + 1
    /\ rng' = rng + 1
    /\ UNCHANGED <<prof, csv, disk, vaults, mu, threads, hist>>
    /\ UNCHANGED engineVars

\* ValidateKey(key) on a given string or on the key GenerateKey returned
CodecValidateKey ==
    /\ CodecAtRest
    /\ \E key \in KeyStrings \cup {k \in {codec.k1} : codec.pc = "generated"} :
        codec' = [NoCodec EXCEPT !.pc = "validated", !.k1 = key,
                                 !.field = IF codec.pc = "generated" /\ key = codec.k1
                                           THEN "generated" ELSE "",
                                 !.valid = ValidateKey(key)]
    /\ UNCHANGED <<prof, csv, disk, vaults, mu, threads, hist, rng, faults>>
    /\ UNCHANGED engineVars

\* f.Encrypt(plaintext) with a Fernet made from a valid key
CodecEncrypt ==
    /\ CodecAtRest
    /\ rng < MaxDraws
    /\ \E key \in CodecKeys, plaintext \in CodecPlaintexts, ok \in BOOLEAN :
        /\ ~ok => faults < MaxFaults
        /\ \E r \in {Encrypt(NewFernet(key).f, plaintext, Rand(rng, ok), now)} :
            codec' = [NoCodec EXCEPT !.pc = IF r.err = "" THEN "encrypted" ELSE "failed",
                                     !.k1 = key, !.p = plaintext, !.token = r.val,
                                     !.err = r.err]
        /\ faults' = IF ok THEN faults ELSE faults + 1
    /\ rng' = rng + 1
    /\ UNCHANGED <<prof, csv, disk, vaults, mu, threads, hist>>
    /\ UNCHANGED engineVars

\* the token is changed in one field on its way
CodecTamper ==
    /\ codec.pc = "encrypted"
    /\ \E x \in Tampered(codec.token) :
        codec' = [codec EXCEPT !.pc = "tampered", !.field = x.field, !.token = x.token]
    /\ UNCHANGED <<prof, csv, disk, vaults, mu, threads, hist, rng, faults>>
    /\ UNCHANGED engineVars

\* f.Decrypt(token) with a Fernet made from a valid key
CodecDecrypt ==
    /\ codec.pc \in {"encrypted", "tampered"}
    /\ \E key \in CodecKeys :
        \E r \in {Decrypt(NewFernet(key).f, codec.token)} :
            codec' = [codec EXCEPT !.pc = "decrypted", !.k2 = key, !.err = r.err,
                                   !.out = r.val,
                                   !.steps = DecryptSteps(NewFernet(key).f, codec.token)]
    /\ UNCHANGED <<prof, csv, disk, vaults, mu, threads, hist, rng, faults>>
    /\ UNCHANGED engineVars

InitCodec ==
    /\ EngineIdle
    /\ StoreIdle
    /\ rng = 0
    /\ faults = 0

NextCodec ==
    \/ CodecGenerateKey
    \/ CodecValidateKey
    \/ CodecEncrypt
    \/ CodecTamper
    \/ CodecDecrypt

SpecCodec == InitCodec /\ [][NextCodec]_vars

-----------------------------------------------------------------------------
(* Specification of the interchange file: a list of records is written by
   WriteEncryptedCSV under a key and the file is read by ReadEncryptedCSV *)

\* identifiers: plain; with a comma and a quote; with a line break (CR LF)
CSVIDs == {IDa, <<97, Comma, Quote, 98>>, <<97, CR, LF, 98>>}

\* secrets: text with a comma and a quote; a byte that is not UTF-8
CSVSecrets == {Plain(<<Comma, Quote>>), Plain(<<255>>)}

CSVRecords ==
    {[RecA EXCEPT !.ConnID = id, !.Password = pw, !.IsEncrypted = enc,
                  !.IsExtraEncrypted = ~enc] :
        id \in CSVIDs, pw \in CSVSecrets, enc \in BOOLEAN}

CSVRecordLists == UNION {[1..n -> CSVRecords] : n \in 0..MaxRows}

CSVKeys == {T1, T2}

\* WriteEncryptedCSV(path, records, fernet)
CSVWrite ==
    /\ csv.pc = "given"
    /\ \E fl \in {NoWriteFault} \cup WriteFaults(Len(csv.recs)) :
       \E w \in {WriteEncryptedCSV(file, csv.recs, NewFernet(csv.key).f, rng, now, fl)} :
        LET nf == IF fl = NoWriteFault THEN 0 ELSE 1 IN
        /\ faults + nf <= MaxFaults
        /\ faults' = faults + nf
        /\ rng' = rng + Len(csv.recs)
        /\ file' = w.file
        /\ csv' = [csv EXCEPT !.pc = IF w.err = "" THEN "written" ELSE "failed",
                              !.err = Err(w.err, <<>>)]
    /\ UNCHANGED <<source, target, now, exp, pc, req, records, existingSet, idx,
                   result, log>>
    /\ UNCHANGED <<prof, codec, disk, vaults, mu, threads, hist>>

\* ReadEncryptedCSV(path, fernet)
CSVRead ==
    /\ csv.pc = "written"
    /\ \E k \in CSVKeys :
       \E rd \in {ReadEncryptedCSV(file, NewFernet(k).f)} :
        csv' = [csv EXCEPT !.pc = "read", !.readKey = k, !.err = rd.err,
                           !.out = rd.records]
    /\ UNCHANGED <<rng, faults>>
    /\ UNCHANGED engineVars
    /\ UNCHANGED <<prof, codec, disk, vaults, mu, threads, hist>>

InitCSV ==
    /\ EngineIdle
    /\ codec = NoCodec
    /\ prof = NoProf
    /\ VaultIdle(0)
    /\ csv \in {[NoCSV EXCEPT !.pc = "given", !.recs = l, !.key = k] :
                    l \in CSVRecordLists, k \in CSVKeys}
    /\ rng = 0
    /\ faults = 0

NextCSV ==
    \/ CSVWrite
    \/ CSVRead

SpecCSV == InitCSV /\ [][NextCSV]_vars

-----------------------------------------------------------------------------
(* Specification of one Import call on a given file and target store *)

Init ==
    /\ source = <<>>
    /\ target \in TargetStores
    /\ file \in SampleFiles
    /\ now = 9
    /\ rng = 0
    /\ faults = 0
    /\ exp = NoExport
    /\ pc = [c \in Callers |-> IF c = 1 THEN "idle" ELSE "off"]
    /\ req = [c \in Callers |-> NoRequest]
    /\ records = [c \in Callers |-> <<>>]
    /\ existingSet = [c \in Callers |-> {}]
    /\ idx = [c \in Callers |-> 0]
    /\ result = [c \in Callers |-> NewImportResult]
    /\ log = [c \in Callers |-> <<>>]
    /\ StoreIdle

Next ==
    \E c \in Callers :
        \/ ImportBegin(c)
        \/ ImportStep(c)
        \/ ImportReturn(c)

Spec == Init /\ [][Next]_vars

-----------------------------------------------------------------------------
(* Specification of an Export followed by an Import of the file it wrote *)

OldFile == SampleFile(<<RecB>>, 0, "")

InitEndToEnd ==
    /\ source \in SourceStores
    /\ target \in {[id \in S |-> OldRow(id)] : S \in {{}, {IDa}}}
    /\ file \in {NoFile, OldFile}
    /\ now = 9
    /\ rng = 20
    /\ faults = 0
    /\ exp = [NoExport EXCEPT !.pc = "idle"]
    /\ pc = [c \in Callers |-> IF c = 1 THEN "idle" ELSE "off"]
    /\ req = [c \in Callers |-> NoRequest]
    /\ records = [c \in Callers |-> <<>>]
    /\ existingSet = [c \in Callers |-> {}]
    /\ idx = [c \in Callers |-> 0]
    /\ result = [c \in Callers |-> NewImportResult]
    /\ log = [c \in Callers |-> <<>>]
    /\ StoreIdle

NextEndToEnd ==
    \/ Export
    \/ \E c \in Callers :
        \/ ImportBegin(c)
        \/ ImportStep(c)
        \/ ImportReturn(c)

SpecEndToEnd == InitEndToEnd /\ [][NextEndToEnd]_vars

-----------------------------------------------------------------------------
(* Specification of two Import calls that run side by side on one target
   store.  Each call is a goroutine of its own (the web handler of part_000
   calls Import per request); the steps of the two interleave at the
   statements they send to the database. *)

\* files whose rows carry distinct identifiers
DistinctFiles ==
    {SampleFile(recs, 0, "") :
        recs \in {l \in RecordLists :
                    \A i, j \in DOMAIN l : l[i].ConnID = l[j].ConnID => i = j}}

InitConcurrent ==
    /\ source = <<>>
    /\ target \in TargetStores
    /\ file \in DistinctFiles
    /\ now = 9
    /\ rng = 0
    /\ faults = 0
    /\ exp = NoExport
    /\ pc = [c \in Callers |-> "idle"]
    /\ req = [c \in Callers |-> NoRequest]
    /\ records = [c \in Callers |-> <<>>]
    /\ existingSet = [c \in Callers |-> {}]
    /\ idx = [c \in Callers |-> 0]
    /\ result = [c \in Callers |-> NewImportResult]
    /\ log = [c \in Callers |-> <<>>]
    /\ StoreIdle

SpecConcurrent == InitConcurrent /\ [][Next]_vars

-----------------------------------------------------------------------------
(* Vocabulary of the properties *)

Done(c) == pc[c] = "done"

IsWrite(e) == e.op \in {"insert", "update"}

Writes(c) == SelectSeq(log[c], IsWrite)

StoreOps(c) == SelectSeq(log[c], LAMBDA e : e.op # "read")

Reached(c, op) == \E i \in DOMAIN log[c] : log[c][i].op = op /\ log[c][i].ok

\* the records the file yields under the call's transport key
FileRecords(c) == ReadEncryptedCSV(file, NewFernet(req[c].FileDecryptionKey).f).records

\* the records the call selects: all of them, or those whose identifier as
\* carried by the file is listed in the request
Selected(c) ==
    SelectSeq(FileRecords(c),
              LAMBDA x : req[c].ConnectionIDs = <<>>
                         \/ \E i \in DOMAIN req[c].ConnectionIDs :
                                req[c].ConnectionIDs[i] = x.ConnID)

\* their identifiers in the target store
SelectedIDs(c) ==
    LET sel == Selected(c) IN
    [i \in DOMAIN sel |-> req[c].ConnectionPrefix \o sel[i].ConnID]

\* the identifiers the target store held when the call began
PreExisting(c) ==
    DOMAIN target \ {log[c][i].ids[1] : i \in {j \in DOMAIN log[c] :
                                               log[c][j].op = "insert" /\ log[c][j].ok}}

Colliding(c) == Range(SelectedIDs(c)) \cap PreExisting(c)

\* a stored secret read back: an empty column is the empty secret, any other
\* is decrypted under the store's key
SecretPlain(key, stored) ==
    IF IsEmpty(stored) THEN [err |-> "", val |-> stored]
    ELSE DecryptString(NewFernet(key).f, stored)

\* the stored row carries the value of the file's record: the same plain
\* columns, and secrets that read back as the record's plaintext
HoldsValue(id, row, rec, key) ==
    LET got == ScanRow(id, row)
        want == ToConnection(rec)
    IN /\ got.ConnType = want.ConnType
       /\ got.Description = want.Description
       /\ got.Host = want.Host
       /\ got.Schema = want.Schema
       /\ got.Login = want.Login
       /\ got.Port = want.Port
       /\ SecretPlain(key, got.Password) = [err |-> "", val |-> want.Password]
       /\ SecretPlain(key, got.Extra) = [err |-> "", val |-> want.Extra]

-----------------------------------------------------------------------------
(* Import: collision strategies *)

\* C1: under the stop strategy, when an effective identifier of a selected
\* record is already in the target store, the call writes nothing and does not
\* succeed; once the existence query has answered, its Error is "connections
\* already exist" and lists exactly the colliding identifiers.
C1_StopWritesNothing ==
    \A c \in Callers :
        (Done(c) /\ req[c].CollisionStrategy = CollisionStop)
        => \A colliding \in {Colliding(c)} :
              colliding # {}
              => /\ Writes(c) = <<>>
                 /\ ~result[c].Success
                 /\ Reached(c, "query")
                    => /\ result[c].Error.msg = "connections already exist"
                       /\ Range(result[c].Error.ids) = colliding

C1_Witness ==
    /\ Done(1)
    /\ req[1].CollisionStrategy = CollisionStop
    /\ Cardinality(Colliding(1)) = 2
    /\ result[1].Error.msg = "connections already exist"
    /\ Cardinality(Range(result[1].Error.ids)) = 2

\* C2: under the skip strategy no step changes or removes a row the target
\* store already holds; a successful call reports the selected records that
\* existed as skipped, in file order, counted by SkippedCount, and has
\* inserted every other selected record.
C2_SkipKeepsExisting ==
    /\ [][(\A c \in Callers : pc[c] = "loop" => req[c].CollisionStrategy = CollisionSkip)
          => \A id \in DOMAIN target :
                id \in DOMAIN target' /\ target'[id] = target[id]]_vars
    /\ [](\A c \in Callers :
            (Done(c) /\ req[c].CollisionStrategy = CollisionSkip /\ result[c].Success)
            => \A ids \in {SelectedIDs(c)}, pre \in {PreExisting(c)} :
                  /\ result[c].SkippedIDs = SelectSeq(ids, LAMBDA x : x \in pre)
                  /\ result[c].SkippedCount = Len(result[c].SkippedIDs)
                  /\ result[c].ImportedIDs = SelectSeq(ids, LAMBDA x : x \notin pre)
                  /\ result[c].ImportedCount = Len(result[c].ImportedIDs)
                  /\ result[c].OverwrittenIDs = <<>>
                  /\ \A i \in DOMAIN Writes(c) :
                        Writes(c)[i].op = "insert" /\ Writes(c)[i].ids[1] \notin pre
                  /\ \A x \in Range(result[c].ImportedIDs) : x \in DOMAIN target)

C2_Witness ==
    /\ Done(1)
    /\ req[1].CollisionStrategy = CollisionSkip
    /\ result[1].Success
    /\ result[1].SkippedIDs = <<IDa>>
    /\ result[1].ImportedIDs = <<IDb>>
    /\ target[IDa] = OldRow(IDa)

\* C3: under the overwrite strategy a successful call has updated, never
\* inserted, every selected record that existed, reports it in OverwrittenIDs
\* and OverwrittenCount, and leaves the target store holding the value the
\* file carries for it; every other selected record is inserted and reported
\* in ImportedIDs.
C3_OverwriteHoldsFileValue ==
    \A c \in Callers :
        (Done(c) /\ req[c].CollisionStrategy = CollisionOverwrite /\ result[c].Success)
        => \A sel \in {Selected(c)}, ids \in {SelectedIDs(c)}, pre \in {PreExisting(c)} :
              /\ result[c].OverwrittenIDs = SelectSeq(ids, LAMBDA x : x \in pre)
              /\ result[c].OverwrittenCount = Len(result[c].OverwrittenIDs)
              /\ result[c].ImportedIDs = SelectSeq(ids, LAMBDA x : x \notin pre)
              /\ result[c].ImportedCount = Len(result[c].ImportedIDs)
              /\ \A i \in DOMAIN Writes(c) :
                    Writes(c)[i].ids[1] \in pre <=> Writes(c)[i].op = "update"
              /\ \A i \in DOMAIN ids :
                    (ids[i] \in pre /\ \A j \in DOMAIN ids : j > i => ids[j] # ids[i])
                    => /\ ids[i] \in DOMAIN target
                       /\ HoldsValue(ids[i], target[ids[i]], sel[i],
                                     req[c].TargetProfile.FernetKey)

-----------------------------------------------------------------------------
(* Import: reading, writing and failing *)

\* a data row of the file fails under the call's transport key
SomeRowFails(c) ==
    /\ file.exists
    /\ NewFernet(req[c].FileDecryptionKey).err = ""
    /\ \E i \in 2..Len(file.rows) :
          ReadRow(file.rows[i], NewFernet(req[c].FileDecryptionKey).f).err # ""

\* C4: every store operation of a call comes after the file has been read and
\* decrypted whole; when a data row of the file fails to decrypt or to parse
\* under the call's transport key, the call does not succeed and performs no
\* store operation at all.
C4_DecryptsBeforeStoring ==
    \A c \in Callers :
        /\ \A i \in DOMAIN log[c] :
              log[c][i].op # "read"
              => \E j \in 1..(i - 1) : log[c][j].op = "read" /\ log[c][j].ok
        /\ (Done(c) /\ SomeRowFails(c))
           => ~result[c].Success /\ StoreOps(c) = <<>>

C4_Witness ==
    /\ Done(1)
    /\ SomeRowFails(1)
    /\ Len(file.rows) = 3
    /\ ReadRow(file.rows[2], NewFernet(req[1].FileDecryptionKey).f).err = ""
    /\ Validate(req[1].TargetProfile) = ""
    /\ result[1].Error.msg = "failed to read CSV"
    /\ IDa \in DOMAIN target

\* C5: every record a step inserts or updates is stored with secrets that
\* read back, under the target key, as the plaintext the file carries for that
\* record.
C5_WritesFileSecrets ==
    [][\A c \in Callers :
          (pc[c] = "loop" /\ Len(log'[c]) = Len(log[c]) + 1
           /\ log'[c][Len(log'[c])].ok)
          => LET id == log'[c][Len(log'[c])].ids[1]
                 rec == records[c][idx[c]]
                 key == req[c].TargetProfile.FernetKey
                 got == ScanRow(id, target'[id])
             IN /\ SecretPlain(key, got.Password) = [err |-> "", val |-> rec.Password]
                /\ SecretPlain(key, got.Extra) = [err |-> "", val |-> rec.Extra]]_vars

\* C6: when an insert or update fails in the write loop, that statement is the
\* call's last store operation, the call does not succeed, its Error names the
\* failing identifier, its lists and counts hold exactly the records processed
\* before the failing one, and the rows written before it are still in the
\* target store.
C6_FailureStopsTheLoop ==
    \A c \in Callers :
        (Done(c) /\ result[c].Error.msg \in {"failed to insert", "failed to update"})
        => \A ids \in {SelectedIDs(c)}, pre \in {PreExisting(c)} :
           LET n == Len(log[c])
               before == SubSeq(ids, 1, idx[c] - 1)
               res == result[c]
           IN /\ n > 0 /\ IsWrite(log[c][n]) /\ ~log[c][n].ok
              /\ ~res.Success
              /\ idx[c] \in DOMAIN ids
              /\ res.Error.ids = <<ids[idx[c]]>>
              /\ log[c][n].ids = res.Error.ids
              /\ res.ImportedIDs = SelectSeq(before, LAMBDA x : x \notin pre)
              /\ res.SkippedIDs \o res.OverwrittenIDs
                    = SelectSeq(before, LAMBDA x : x \in pre)
              /\ res.ImportedCount = Len(res.ImportedIDs)
              /\ res.SkippedCount = Len(res.SkippedIDs)
              /\ res.OverwrittenCount = Len(res.OverwrittenIDs)
              /\ Len(Writes(c)) = res.ImportedCount + res.OverwrittenCount + 1
              /\ \A i \in 1..(n - 1) :
                    (IsWrite(log[c][i]) /\ log[c][i].ok
                     /\ \A j \in (i + 1)..(n - 1) :
                           IsWrite(log[c][j]) => log[c][j].ids # log[c][i].ids)
                    => /\ log[c][i].ids[1] \in DOMAIN target
                       /\ target[log[c][i].ids[1]] = log[c][i].row

C6_Witness ==
    /\ Done(1)
    /\ result[1].Error.msg = "failed to insert"
    /\ result[1].Error.ids = <<IDb>>
    /\ result[1].ImportedIDs = <<IDa>>
    /\ IDa \in DOMAIN target
    /\ IDb \notin DOMAIN target

\* C7: with a prefix P the call queries, writes and reports every selected
\* record under P followed by its identifier in the file (the identifier
\* itself when P is empty) and, when P is not empty, never queries or writes
\* the bare identifier; the request's identifier filter is matched against the
\* identifiers as the file carries them.
C7_PrefixedEverywhere ==
    \A c \in {x \in Callers : pc[x] \in {"loop", "done"}} :
    \A sel \in {Selected(c)} :
    \A ids \in {[i \in DOMAIN sel |-> req[c].ConnectionPrefix \o sel[i].ConnID]} :
        LET res == result[c]
            reported == res.ImportedIDs \o res.OverwrittenIDs \o res.SkippedIDs
        IN /\ \A i \in DOMAIN log[c] :
                 /\ log[c][i].op = "query" => log[c][i].ids = ids
                 /\ IsWrite(log[c][i])
                    => \E k \in DOMAIN ids : log[c][i].ids = <<ids[k]>>
                 /\ req[c].ConnectionPrefix # <<>>
                    => \A k \in DOMAIN log[c][i].ids, j \in DOMAIN sel :
                          log[c][i].ids[k] # sel[j].ConnID
           /\ Range(reported) \subseteq Range(ids)
           /\ pc[c] = "loop" => records[c] = sel
           /\ (Done(c) /\ res.Success) => Len(reported) = Len(ids)

C7_Witness ==
    /\ Done(1)
    /\ result[1].Success
    /\ req[1].ConnectionPrefix = PrefixP
    /\ req[1].ConnectionIDs = <<IDa, PrefixP \o IDb>>
    /\ Len(FileRecords(1)) = 2
    /\ result[1].ImportedIDs = <<PrefixP \o IDa>>
    /\ DOMAIN target = {IDb, PrefixP \o IDa}

-----------------------------------------------------------------------------
(* Export, and Export followed by Import *)

\* the plaintext of a secret column of the source store, as Export takes it
SourcePlain(stored) == TolerantDecrypt(NewFernet(K1).f, stored)

\* the Export of a whole source store whose secrets are tokens under K1, under
\* a generated transport key
ExportedAllUnderFreshKey ==
    /\ exp.pc = "done"
    /\ exp.req.SourceProfile = GoodProfile(K1)
    /\ IsEmpty(exp.req.FileEncryptionKey)
    /\ exp.req.ConnectionIDs = <<>>
    /\ IDc \notin DOMAIN source
    /\ exp.result.Success

\* the Import of that file into an empty target store under K2, with the skip
\* strategy and no prefix
ImportedIntoEmptyTarget(c) ==
    /\ Done(c)
    /\ req[c].FileDecryptionKey = exp.result.FileEncryptionKey
    /\ req[c].TargetProfile = GoodProfile(K2)
    /\ req[c].CollisionStrategy = CollisionSkip
    /\ req[c].ConnectionPrefix = <<>>
    /\ PreExisting(c) = {}
    /\ result[c].Success

\* C8: a successful Export of a source store of N records whose secrets are
\* tokens under K1, with an empty transport key, leaves a file of N + 1 lines;
\* a successful Import of it into an empty target store under K2 (skip, no
\* prefix) reports ImportedCount = N and SkippedCount = 0 and leaves, for every
\* source record, a target record with the same plain fields and with secrets
\* that decrypt under K2 to the source's plaintext.
C8_EndToEnd ==
    ExportedAllUnderFreshKey
    => /\ file.exists /\ Len(file.rows) = Cardinality(DOMAIN source) + 1
       /\ \A c \in Callers :
             ImportedIntoEmptyTarget(c)
             => /\ result[c].ImportedCount = Cardinality(DOMAIN source)
                /\ result[c].SkippedCount = 0
                /\ \A id \in DOMAIN source :
                      /\ id \in DOMAIN target
                      /\ LET src == ScanRow(id, source[id])
                             got == ScanRow(id, target[id])
                         IN /\ got.ConnType = src.ConnType
                            /\ got.Description = src.Description
                            /\ got.Host = src.Host
                            /\ got.Schema = src.Schema
                            /\ got.Login = src.Login
                            /\ got.Port = src.Port
                            /\ SecretPlain(K2, got.Password)
                                  = [err |-> "", val |-> SourcePlain(src.Password)]
                            /\ SecretPlain(K2, got.Extra)
                                  = [err |-> "", val |-> SourcePlain(src.Extra)]

\* a request that cannot reach the write phase
BadExportRequest(r) ==
    \/ r.SourceProfile.DBHost = ""
    \/ r.SourceProfile.DBName = ""
    \/ r.SourceProfile.DBUser = ""
    \/ ~ValidateKey(r.SourceProfile.FernetKey)
    \/ ~IsEmpty(r.FileEncryptionKey) /\ ~ValidateKey(r.FileEncryptionKey)

\* C9: an Export given a profile without host, database name, user or key, or
\* a malformed source or transport key, fails; and every Export that fails
\* before its write phase (those, a refused connection, a failed key
\* generation, a failed listing) returns Success = false with a non-empty Error
\* and leaves the file at OutputPath as it was, absent or unchanged.
C9_EarlyFailureLeavesFile ==
    [][(exp.pc = "idle" /\ exp'.pc = "done")
       => /\ BadExportRequest(exp'.req) => ~exp'.result.Success
          /\ (~exp'.result.Success /\ exp'.result.Error # "failed to write CSV")
             => exp'.result.Error # "" /\ file' = file]_vars

C9_Witness ==
    /\ exp.pc = "done"
    /\ exp.result.Error = "failed to list connections"
    /\ ~exp.result.Success
    /\ file = OldFile
    /\ DOMAIN source = SourceIDs

\* C10: a successful Export reports a valid transport key under which every
\* data row of the written file decrypts; it is the caller's key when one was
\* supplied, and a generated key, none of the keys in use, when none was.
C10_ReportedKeyDecryptsFile ==
    (exp.pc = "done" /\ exp.result.Success)
    => LET key == exp.result.FileEncryptionKey IN
       /\ ValidateKey(key)
       /\ ~IsEmpty(exp.req.FileEncryptionKey) => key = exp.req.FileEncryptionKey
       /\ IsEmpty(exp.req.FileEncryptionKey) => key \notin {K1, K2, T1, T2}
       /\ file.exists
       /\ \A i \in 2..Len(file.rows) :
             DecryptString(NewFernet(key).f, file.rows[i][2]).err = ""

C10_Witness ==
    /\ exp.pc = "done"
    /\ exp.result.Success
    /\ IsEmpty(exp.req.FileEncryptionKey)
    /\ exp.result.ConnectionCount = 3
    /\ Len(file.rows) = 4

-----------------------------------------------------------------------------
(* Vocabulary of the vault properties *)

\* thread t is about to return from the call of a mutation
Returning(t) == threads[t].pc = "unlocking" /\ threads[t].op.name \in Mutations

\* Set, Delete of a present key or Clear is about to return without error
Succeeded(t) == Returning(t) /\ threads[t].ret.err = ""

\* what an Open with the key of instance v would load now
FileMapping(v) == StoreLoad(vaults[v].key, disk.data)

\* a process has just opened the vault with the key the previous process used,
\* and no mutation of the previous process had failed
Reopened ==
    /\ hist.new.done
    /\ hist.new.err = ""
    /\ hist.last.closed
    /\ hist.last.clean
    /\ vaults[hist.new.v].key = hist.last.key

\* C11: when Set, Delete of a present key or Clear returns without error, the
\* data file decrypts under the vault key to exactly the in-memory mapping;
\* and a vault opened again with the same password after successful mutations
\* holds the mapping the previous instance held.
C11_FileHoldsMapping ==
    /\ \A t \in Threads :
        Succeeded(t) =>
            /\ disk.data.exists
            /\ FileMapping(threads[t].v) = [err |-> "", data |-> vaults[threads[t].v].data]
    /\ Reopened => vaults[hist.new.v].data = hist.last.data

\* New has just returned for a data file that had been written whole under a
\* key derived from another password
OpenedWithOtherPassword ==
    /\ hist.new.done
    /\ hist.new.before.exists
    /\ hist.new.before.content.form = "sealed"
    /\ hist.new.before.content.key.pw # hist.new.pw

WriteFailedIn(t) == Returning(t) /\ threads[t].ret.err = "failed to write credentials file"

\* C13: when the write of the data file fails during Set, Delete or Clear, the
\* call returns the error and the data file is what it was before the call.
C13_FailedWriteKeepsFile ==
    \A t \in Threads :
        WriteFailedIn(t) => disk.data = threads[t].before.file

\* C14: when Set, Delete or Clear returns an error, the in-memory mapping and
\* the data file are both what they were before the call.
C14_ErrorChangesNothing ==
    \A t \in Threads :
        Returning(t) /\ threads[t].ret.err # "" =>
            /\ vaults[threads[t].v].data = threads[t].before.data
            /\ disk.data = threads[t].before.file

\* thread t is inside a call of instance v, between taking the lock and
\* releasing it
Inside(t, v) == threads[t].pc \in {"locked", "saving", "unlocking"} /\ threads[t].v = v

\* no call of instance v is in progress
AllReturned(v) == \A t \in Threads : ~Inside(t, v)

\* a mutation of instance v excludes every other call of v; reads may overlap
\* each other only
MutuallyExclusive ==
    \A v \in Vaults : \A t, u \in Threads :
        t # u /\ Inside(t, v) /\ Inside(u, v) =>
            threads[t].op.name \notin Mutations /\ threads[u].op.name \notin Mutations

\* the data file holds the mapping of instance v (no file: the empty mapping)
FileReflects(v) ==
    IF disk.data.exists
    THEN FileMapping(v) = [err |-> "", data |-> vaults[v].data]
    ELSE vaults[v].data = <<>>

\* C15: on one instance called from several threads, Set, Delete and Clear
\* exclude each other and Get, Has and List, while reads may overlap; and when
\* all calls have returned the data file reflects the in-memory mapping.
C15_ExclusiveAndPersisted ==
    /\ MutuallyExclusive
    /\ \A v \in Vaults : vaults[v].open /\ AllReturned(v) => FileReflects(v)

\* thread t is about to return from the call of the read operation name
Read(t, name) == threads[t].pc = "unlocking" /\ threads[t].op.name = name

\* keys lists every element of S once
ListsOnce(keys, S) ==
    /\ Len(keys) = Cardinality(S)
    /\ \A k \in S : \E i \in DOMAIN keys : keys[i] = k

\* C16: while every mutation since the vault was opened has returned without
\* error, List returns exactly the keys that were set and not deleted or
\* cleared afterwards, each once, and Get(k) returns the value of the most
\* recent Set of k.
C16_ReadsFollowMutations ==
    \A t \in Threads :
        hist.clean =>
            /\ Read(t, "List") => ListsOnce(threads[t].ret.keys, DOMAIN hist.spec)
            /\ Read(t, "Get") /\ threads[t].op.key \in DOMAIN hist.spec =>
                    /\ threads[t].ret.err = ""
                    /\ threads[t].ret.val = hist.spec[threads[t].op.key]

C16_Witness ==
    /\ hist.clean
    /\ hist.replaced
    /\ Read(1, "Get")
    /\ threads[1].ret.err = ""
    /\ threads[1].ret.val = <<255>>

\* C17: Get of an absent key returns ErrKeyNotFound; Delete of an absent key
\* returns ErrKeyNotFound and changes neither the in-memory mapping nor the
\* data file, which is not rewritten; Has(k) is true exactly when Get(k) would
\* succeed.
C17_AbsentKey ==
    \A t \in Threads :
        LET data == vaults[threads[t].v].data
            key == threads[t].op.key
        IN /\ Read(t, "Get") => (threads[t].ret.err = ErrKeyNotFound <=> key \notin DOMAIN data)
           /\ Read(t, "Get") => (threads[t].ret.err = "" <=> key \in DOMAIN data)
           /\ Read(t, "Has") => (threads[t].ret.ok <=> key \in DOMAIN data)
           /\ Returning(t) /\ threads[t].op.name = "Delete"
                           /\ key \notin DOMAIN threads[t].before.data =>
                    /\ threads[t].ret.err = ErrKeyNotFound
                    /\ data = threads[t].before.data
                    /\ disk.data = threads[t].before.file

C17_Witness ==
    /\ Returning(1)
    /\ threads[1].op.name = "Delete"
    /\ threads[1].ret.err = ErrKeyNotFound
    /\ disk.data.exists
    /\ vaults[threads[1].v].data # <<>>
    /\ disk.data = threads[1].before.file

-----------------------------------------------------------------------------
(* Properties of the codec *)

\* Decrypt has returned for the token as Encrypt made it
DecryptedAsMade == codec.pc = "decrypted" /\ codec.field = ""

\* C18: Decrypt(k, Encrypt(k, p)) = p for every valid key k and every byte
\* string p, the empty one and those of a whole number of blocks included.
C18_RoundTrip ==
    DecryptedAsMade /\ codec.k2 = codec.k1 =>
        /\ codec.err = ""
        /\ codec.out = codec.p

C18_Witness ==
    /\ DecryptedAsMade
    /\ codec.k2 = codec.k1
    /\ codec.p = Plain([i \in 1..16 |-> 16])
    /\ codec.out = codec.p

\* C19: a token changed in any single field (version, timestamp, IV,
\* ciphertext, HMAC) makes Decrypt under the key it was made with return an
\* error and no plaintext.
C19_TamperDetected ==
    codec.pc = "decrypted" /\ codec.field # "" /\ codec.k2 = codec.k1 =>
        /\ codec.err # ""
        /\ codec.out = EmptyString

C19_Witness ==
    /\ codec.pc = "decrypted"
    /\ codec.field = "timestamp"
    /\ codec.k2 = codec.k1
    /\ codec.err = ErrInvalidHMAC

\* the two halves of a valid key
SigningHalf(key) == NewFernet(key).f.signingKey

EncryptionHalf(key) == NewFernet(key).f.encryptionKey

\* what the ciphertext of the token decrypts to under the encryption half of
\* key
DecryptedBlocks(key, token) ==
    CBCDecrypt(EncryptionHalf(key), token.val.iv, token.val.ciphertext)

\* C20 as stated: for any two different valid keys, whichever halves differ,
\* Decrypt(k2, Encrypt(k1, p)) returns an error for every p.
C20_OtherKeyRefused ==
    DecryptedAsMade /\ codec.k2 # codec.k1 => codec.err # ""

\* C20: Decrypt(k2, Encrypt(k1, p)) returns ErrInvalidHMAC whenever the
\* signing halves of k1 and k2 differ; when only the encryption halves differ
\* the signature verifies, and Decrypt returns an error exactly when the
\* blocks decrypted under k2 do not end in padding that pkcs7Unpad accepts.
C20_OtherSigningKeyRefused ==
    DecryptedAsMade /\ codec.k2 # codec.k1 =>
        IF SigningHalf(codec.k2) # SigningHalf(codec.k1)
        THEN codec.err = ErrInvalidHMAC /\ codec.out = EmptyString
        ELSE /\ codec.err \in {"", ErrInvalidFernetToken}
             /\ codec.err = "" <=> pkcs7Unpad(DecryptedBlocks(codec.k2, codec.token)).err = ""

C20_Witness ==
    /\ DecryptedAsMade
    /\ SigningHalf(codec.k2) # SigningHalf(codec.k1)
    /\ EncryptionHalf(codec.k2) = EncryptionHalf(codec.k1)
    /\ codec.err = ErrInvalidHMAC

\* the string is the padded base64 text, in the URL-safe or in the standard
\* alphabet, of exactly 32 bytes
DecodesTo32Bytes(s) ==
    /\ s.kind = "b64"
    /\ s.val.padded
    /\ s.val.alphabet \in {"url", "std", "both"}
    /\ Len(s.val.bytes) = 32

\* C21: ValidateKey(s) is true exactly when s decodes, as padded URL-safe or
\* padded standard base64, to 32 bytes; so every key GenerateKey returns
\* validates true, and a 24-byte key, text that is not base64, the empty
\* string and a key without its padding validate false.
C21_ValidateKey ==
    codec.pc = "validated" =>
        /\ codec.valid <=> DecodesTo32Bytes(codec.k1)
        /\ codec.field = "generated" => codec.valid
        /\ codec.k1 \in {ShortKey, NotBase64Key, EmptyString,
                         B64("url", FALSE, [i \in 1..fernetKeyLen |-> 1])} => ~codec.valid

C21_Witness ==
    /\ codec.pc = "validated"
    /\ codec.field = "generated"
    /\ codec.valid

-----------------------------------------------------------------------------
(* Import and Export: errors, keys, strategies and identifiers *)

\* a step of the Import call of c has failed: the profile or the transport
\* key is refused, a row of the file does not decrypt, or a connection, a
\* statement or a random draw has failed
StepFailed(c) ==
    \/ faults > 0
    \/ Validate(req[c].TargetProfile) # ""
    \/ NewFernet(req[c].FileDecryptionKey).err # ""
    \/ \E i \in DOMAIN log[c] : ~log[c][i].ok

\* C22: whenever a step inside Import fails, the returned result has
\* Success=false and a non-empty Error.
C22_NoErrorSwallowed ==
    \A c \in Callers :
        Done(c) /\ StepFailed(c) =>
            /\ ~result[c].Success
            /\ result[c].Error # NoErr

\* the request of c passes Validate and carries a target key or a transport
\* key that NewFernet refuses
MalformedKey(c) ==
    /\ Validate(req[c].TargetProfile) = ""
    /\ \/ NewFernet(req[c].TargetProfile.FernetKey).err # ""
       \/ NewFernet(req[c].FileDecryptionKey).err # ""

\* C23: a malformed target key or transport key makes Import fail before any
\* I/O: the call does not succeed and has read no file, opened no database
\* connection and issued no query.
C23_KeyErrorBeforeIO ==
    \A c \in Callers :
        Done(c) /\ MalformedKey(c) =>
            /\ ~result[c].Success
            /\ log[c] = <<>>

\* the interchange file as WriteEncryptedCSV writes it from zero records
HeaderOnly == file = FileOf(<<csvHeaders>>)

\* C24: a file of only the header row is valid: ReadEncryptedCSV returns zero
\* records and no error, and an Import of it (valid profile and transport key)
\* returns Success=true with all counts zero and performs no store operation.
C24_HeaderOnlyFile ==
    \A c \in Callers :
        (Done(c) /\ HeaderOnly /\ Validate(req[c].TargetProfile) = ""
                 /\ NewFernet(req[c].FileDecryptionKey).err = "")
        => /\ ReadEncryptedCSV(file, NewFernet(req[c].FileDecryptionKey).f)
                = [err |-> NoErr, records |-> <<>>]
           /\ result[c] = [NewImportResult EXCEPT !.Success = TRUE]
           /\ StoreOps(c) = <<>>

C24_Witness ==
    /\ Done(1)
    /\ HeaderOnly
    /\ result[1].Success
    /\ result[1].ImportedCount = 0
    /\ target # <<>>
    /\ StoreOps(1) = <<>>

\* the signature of the token does not verify under the signing half of the
\* key given to Decrypt
SignatureFails ==
    codec.token.val.hmac # HMAC(SigningHalf(codec.k2), TokenData(codec.token.val))

Performed(op) == \E i \in DOMAIN codec.steps : codec.steps[i].op = op

\* the padding of the blocks, decrypted under the key given to Decrypt, would
\* have been accepted
PaddingWouldPass == pkcs7Unpad(DecryptedBlocks(codec.k2, codec.token)).err = ""

\* C25: Decrypt verifies the HMAC over version, timestamp, iv and ciphertext
\* before it decrypts or unpads: for a token whose HMAC does not verify it
\* runs neither the block cipher nor the padding check, and returns the same
\* error whether or not the padding would have been valid.
C25_VerifyThenDecrypt ==
    /\ codec.pc = "decrypted" =>
        /\ codec.err = "" <=> \A i \in DOMAIN codec.steps : codec.steps[i].ok
        /\ \A i, j \in DOMAIN codec.steps :
                codec.steps[i].op = "hmac" /\ codec.steps[j].op \in {"cbc", "unpad"} => i < j
    /\ codec.pc = "decrypted" /\ SignatureFails =>
        /\ ~Performed("cbc")
        /\ ~Performed("unpad")
        /\ codec.err # ""
        /\ codec.out = EmptyString
        /\ codec.token.val.version = fernetVersion => codec.err = ErrInvalidHMAC

C25_Witness ==
    /\ codec.pc = "decrypted"
    /\ SignatureFails
    /\ ~PaddingWouldPass
    /\ codec.err = ErrInvalidHMAC
    /\ codec.field = "ciphertext"

\* the buffer ends as pkcs7Pad ends it: its last byte n is in 1..16 and its
\* last n bytes all equal n
StructurallyValid(buf) ==
    LET len == BufLen(buf)
        n == ByteAt(buf, len)
    IN /\ len > 0
       /\ n \in 1..BlockSize
       /\ n <= len
       /\ \A i \in (len - n + 1)..len : ByteAt(buf, i) = n

\* C26: when the decrypted, block-aligned buffer does not end in structurally
\* valid padding (its last byte n is not in 1..16, or its last n bytes are not
\* all n), pkcs7Unpad returns an error and Decrypt fails.
C26_InvalidPaddingRejected ==
    (codec.pc = "decrypted" /\ Performed("unpad")
        /\ ~StructurallyValid(DecryptedBlocks(codec.k2, codec.token)))
    => /\ pkcs7Unpad(DecryptedBlocks(codec.k2, codec.token)).err # ""
       /\ codec.err # ""

\* C27: Import updates a record already present in the target store only
\* when the strategy is exactly overwrite; under every other strategy value
\* (stop, skip, the empty string, any unrecognised string) it issues no
\* update.
C27_OnlyOverwriteUpdates ==
    \A c \in Callers :
        req[c].CollisionStrategy # CollisionOverwrite =>
            \A i \in DOMAIN log[c] : log[c][i].op # "update"

\* the call c issues a statement op in this step
Issues(c, op) ==
    /\ Len(log'[c]) = Len(log[c]) + 1
    /\ log'[c][Len(log'[c])].op = op

\* C28: under the skip and overwrite strategies Import never issues an insert
\* for an effective identifier that is present in the target store at the
\* moment of the insert, an identifier inserted earlier by the same call
\* included.
C28_InsertsOnlyAbsent ==
    [][\A c \in Callers :
        (/\ req[c].CollisionStrategy \in {CollisionSkip, CollisionOverwrite}
         /\ Issues(c, "insert"))
        => log'[c][Len(log'[c])].ids[1] \notin DOMAIN target]_vars

\* the identifiers a returned call reports under a field of its result
Reported(c, field) == Range(result[c][field])

\* C29: two Import calls that run side by side on the same target store with
\* the skip strategy and overlapping identifiers both return Success = true,
\* and every overlapping identifier that is inserted is inserted by exactly
\* one of them and reported as skipped by the other, whatever the
\* interleaving (no statement failing for a reason of its own).
C29_ConcurrentSkip ==
    (/\ \A c \in Callers : Done(c) /\ req[c].CollisionStrategy = CollisionSkip
     /\ faults = 0)
    => /\ \A c \in Callers : result[c].Success
       /\ \A id \in Range(SelectedIDs(1)) \cap Range(SelectedIDs(2)) :
            /\ Reported(1, "ImportedIDs") \cap Reported(2, "ImportedIDs") = {}
            /\ \A c, d \in Callers :
                (c # d /\ id \in Reported(c, "ImportedIDs"))
                => id \in Reported(d, "SkippedIDs")

\* C30: the identifier of a row is bound to its token: a file whose conn_id
\* column was altered in one row, or exchanged between two rows, after it was
\* written is refused when it is read.
C30_IdentifierBound ==
    \A c \in Callers : file \in AlteredFiles => ~Reached(c, "read")

-----------------------------------------------------------------------------
(* Export: result, tolerant decryption, selection; the interchange file *)

\* the identifiers of the data rows of the interchange file, in file order
FileIDs == [i \in 1..(Len(file.rows) - 1) |-> ReadField(file.rows[i + 1][1])]

\* C31: the result of Export describes what was written: after a successful
\* call ExportedIDs lists the identifiers of the rows of the file in file
\* order and ConnectionCount is their number; a result with Success = false
\* reports no identifier as exported that is not in the file.
C31_ResultDescribesFile ==
    exp.pc = "done" =>
        /\ exp.result.Success =>
            /\ exp.result.ExportedIDs = FileIDs
            /\ exp.result.ConnectionCount = Len(FileIDs)
        /\ ~exp.result.Success => Range(exp.result.ExportedIDs) \subseteq Range(FileIDs)

\* the identifiers of the statements op the call c issued, in order
IssuedIDs(c, op) ==
    LET sel == SelectSeq(log[c], LAMBDA e : e.op = op) IN
    [i \in DOMAIN sel |-> sel[i].ids[1]]

\* C32: on every successful Import the three counts add up to the number of
\* records selected by the ConnectionIDs filter, each count is the length of
\* its identifier list, and the writes the call performed on the store are
\* the inserts of ImportedIDs and the updates of OverwrittenIDs, nothing else.
C32_CountsAccountForRecords ==
    \A c \in Callers :
        (Done(c) /\ result[c].Success) =>
            /\ result[c].ImportedCount + result[c].SkippedCount
                 + result[c].OverwrittenCount = Len(Selected(c))
            /\ result[c].ImportedCount = Len(result[c].ImportedIDs)
            /\ result[c].SkippedCount = Len(result[c].SkippedIDs)
            /\ result[c].OverwrittenCount = Len(result[c].OverwrittenIDs)
            /\ IssuedIDs(c, "insert") = result[c].ImportedIDs
            /\ IssuedIDs(c, "update") = result[c].OverwrittenIDs
            /\ \A i \in DOMAIN log[c] : IsWrite(log[c][i]) => log[c][i].ok

C32_Witness ==
    \E c \in Callers :
        /\ Done(c) /\ result[c].Success
        /\ result[c].ImportedCount > 0
        /\ result[c].OverwrittenCount > 0

\* the identifiers Export is asked for that the source store holds, in the
\* store's listing order
RequestedIDs ==
    SortIDs({id \in DOMAIN source :
                exp.req.ConnectionIDs = <<>> \/ id \in Range(exp.req.ConnectionIDs)})

\* the records of the written file, read under the key the Export reported
ExportedRecords ==
    ReadEncryptedCSV(file, NewFernet(exp.result.FileEncryptionKey).f).records

\* the value a stored secret is exported as: its plaintext under the source
\* key when it decrypts, the stored value itself when it does not
ExportedAs(stored) ==
    LET d == DecryptString(NewFernet(exp.req.SourceProfile.FernetKey).f, stored) IN
    IF d.err = "" THEN d.val ELSE stored

\* the Export has returned and every write of its file reached the disk
ExportComplete ==
    /\ exp.pc = "done"
    /\ exp.result.Success
    /\ Len(FileIDs) = exp.result.ConnectionCount

\* C33: Export decrypts tolerantly: the password and the extra of every
\* exported record are serialized as their plaintext under the source key
\* when the decryption succeeds and as the stored value when it fails; a
\* failing decryption neither aborts the Export nor drops the record.
C33_TolerantDecryption ==
    /\ (exp.pc = "done" /\ faults = 0 /\ ~BadExportRequest(exp.req))
       => exp.result.Success
    /\ ExportComplete =>
        \E ids \in {RequestedIDs} :
        \E recs \in {ExportedRecords} :
            /\ Len(recs) = Len(ids)
            /\ \A i \in DOMAIN ids :
                /\ recs[i].ConnID = ids[i]
                /\ recs[i].Password = ExportedAs(source[ids[i]].password.String)
                /\ recs[i].Extra = ExportedAs(source[ids[i]].extra.String)

\* an Export under a key that decrypts none of the stored secrets wrote all
\* three records
C33_Witness ==
    /\ ExportComplete
    /\ exp.req.SourceProfile.FernetKey = K2
    /\ Len(RequestedIDs) = 3
    /\ \A i \in 1..3 : ExportedRecords[i].Password = source[RequestedIDs[i]].password.String

\* C34: with a non-empty ConnectionIDs list the file holds exactly the store
\* records whose identifier is in the list, each once and in the store's
\* listing order (ascending conn_id) whatever the order and the duplicates of
\* the list, identifiers absent from the store being ignored; with an empty
\* list it holds every store record.
C34_ExportSelection ==
    ExportComplete =>
        /\ \A i, j \in DOMAIN FileIDs : i < j => IDLess(FileIDs[i], FileIDs[j])
        /\ Range(FileIDs) =
             IF exp.req.ConnectionIDs = <<>> THEN DOMAIN source
             ELSE DOMAIN source \cap Range(exp.req.ConnectionIDs)
        /\ \A i \in DOMAIN FileIDs :
             ExportedRecords[i].Login = source[FileIDs[i]].login.String

C34_Witness ==
    /\ ExportComplete
    /\ exp.req.ConnectionIDs = <<IDb, IDa, IDb>>
    /\ DOMAIN source = {IDb, IDc}
    /\ FileIDs = <<IDb>>

\* C35: the interchange file round-trips: for any list of records and any
\* key, reading under that key the file written under it returns the same
\* number of records in the same order with every field equal to the
\* original, values with commas or quote characters included.
C35_FileRoundTrip ==
    (csv.pc = "read" /\ csv.readKey = csv.key /\ faults = 0)
    => /\ csv.err = NoErr
       /\ csv.out = csv.recs

-----------------------------------------------------------------------------
(* Properties of the vault: instances side by side, salt, wrong passwords,
   creation of the data file *)

\* the keys of the mapping a fresh Open with the key of instance v would load
ReopenedKeys(v) == DOMAIN FileMapping(v).data

\* C36: two instances opened on one storage directory with the same password
\* do not lose each other's writes: when a Set of one instance has succeeded
\* after successful Sets of the other, a fresh Open of the directory yields a
\* mapping that has every key set so far (as the file writes it).
C36_NoLostWrites ==
    \A t \in Threads :
        (/\ Succeeded(t)
         /\ \A v, w \in Vaults : vaults[v].open /\ vaults[v].key = vaults[w].key
         /\ faults = 0)
        => \A k \in DOMAIN hist.spec : CoerceUTF8(k) \in ReopenedKeys(threads[t].v)

\* C37: the salt is created once and then only reused: once the storage
\* directory holds a salt file (of saltLength bytes) no Open changes it, so
\* every Open with the same password derives the same key.
C37_SaltCreatedOnce ==
    [][(disk.salt.exists /\ Len(disk.salt.content) = saltLength)
       => disk'.salt = disk.salt]_vars

\* an Open returns in this step
Opens == hist'.new.done /\ (hist'.new # hist.new \/ disk' # disk)

\* C38: an Open that fails with ErrInvalidPassword changes nothing on disk:
\* the salt file and the data file are what they were before the attempt.
C38_RefusedOpenKeepsDisk ==
    [][(Opens /\ hist'.new.err = ErrInvalidPassword) => disk' = disk]_vars

\* the data file appears in this step
Appears == ~Exists(disk.data) /\ Exists(disk'.data)

\* C39: the data file is created lazily: an Open on a directory without a
\* data file starts with the empty mapping and does not create the file, and
\* the file first appears at a Set or a Clear that succeeds; Get, Has, List
\* and a failing Delete never create it.
C39_LazyCreation ==
    [][/\ Appears => \E t \in Threads :
                        /\ Succeeded(t)'
                        /\ threads'[t].op.name \in {"Set", "Clear"}
       /\ (Opens /\ hist'.new.err = "" /\ ~Exists(disk.data))
            => vaults'[hist'.new.v].data = <<>>]_vars

-----------------------------------------------------------------------------
(* Properties of the profiles kept in the vault *)

\* C40: a profile saved into the vault through any front end and then loaded
\* by its identifier through any front end has the host, port, database
\* name, user, password and key that were saved, and so still passes
\* Validate if it did when saved.
C40_ProfileRoundTrip ==
    prof.pc = "loaded" =>
        /\ prof.found
        /\ prof.out.DBHost = prof.saved.DBHost
        /\ prof.out.DBPort = prof.saved.DBPort
        /\ prof.out.DBName = prof.saved.DBName
        /\ prof.out.DBUser = prof.saved.DBUser
        /\ prof.out.DBPassword = prof.saved.DBPassword
        /\ prof.out.FernetKey = prof.saved.FernetKey
        /\ Validate(prof.saved) = "" => Validate(prof.out) = ""

====
